---- MODULE Spec2Model ----
(***************************************************************************)
(* Model of the drawing server (command executor, streaming coordinator,   *)
(* session registry) and of the planner boundary in services/gemini.js.    *)
(*                                                                         *)
(* One action is one run-to-completion segment of the Node.js event loop:  *)
(* an inbound message handler, a timer callback, or the continuation of an *)
(* async function from one await to the next.                              *)
(*                                                                         *)
(* Not modelled: the REST endpoints that only forward a message.  The       *)
(* relay of CANVAS_UPDATE to the other clients is part of                  *)
(* CanvasUpdateMessage only, and the texts of the planner's conversation   *)
(* are followed by processUserPromptReturn only (SpecHistory).             *)
(***************************************************************************)
EXTENDS Integers, Sequences, FiniteSets, TLC

(***************************************************************************)
(* Bounds of the model                                                     *)
(***************************************************************************)
MaxSnaps == 4
MaxBatchLen == 3
TimeStep == 1000        \* milliseconds of processing time in one step

Sessions == {"s1", "s2"}
ExecSessions == {"s1"}
Prompts == {"a tree"}

(***************************************************************************)
(* Program constants                                                       *)
(***************************************************************************)
STOP_THRESHOLD == 95
LAST_PHASE == 3
DEFAULT_BATCH_SIZE == 3
MIN_BATCH_SIZE == 1
MAX_BATCH_SIZE == 5
DEFAULT_PAUSE == 1000
DEFAULT_STREAMING_INTERVAL == 500
MIN_STREAMING_INTERVAL == 200
MAX_STREAMING_INTERVAL == 2000
MAX_CONSECUTIVE_ERRORS == 5

VARIABLES
    sess,               \* per connection: the fields the server keeps on ws
    canvasState,        \* process-wide last snapshot (0 = null)
    canvasUpdateQueue,  \* Map ws -> latest snapshot, in insertion order
    timers,             \* pending setTimeout(processNextCanvasUpdate, 100)
    tasks,              \* async invocations in flight, in the order they were
                        \* started, and those that settled last
    nextSnap,           \* id of the next snapshot a client will send
    planned,            \* history: the snapshots passed to streamingModeUpdate
    terminalReported,   \* history: sessions whose planner reported >= 95%
                        \* since their last AI_PROMPT
    streamingBatchSize, \* services/gemini.js module state
    consecutiveErrors,  \* process-wide count of failed inbound messages
    connectedClients,   \* the Set of the connections the server registered
    conversationHistory \* services/gemini.js module state: the prompts and
                        \* the responses of the calls that parsed, oldest first

vars == <<sess, canvasState, canvasUpdateQueue, timers, tasks, nextSnap,
          planned, terminalReported, streamingBatchSize, consecutiveErrors,
          connectedClients, conversationHistory>>

(***************************************************************************)
(* The parameters of a draw command, as JSON gives them.  A numeric field  *)
(* is absent (Undefined), a number, or a string that is not a number       *)
(* (Text); numbers are counted in halves, so that Num(21) is 10.5.  The    *)
(* tool is a string and the colour a sequence of characters; "" and <<>>   *)
(* stand for an absent value too, which `||` and the colour pattern treat  *)
(* as they treat the empty string.                                         *)
(***************************************************************************)
MIN_LINE_WIDTH == 1
MAX_LINE_WIDTH == 50
CANVAS_WIDTH == 800
CANVAS_HEIGHT == 600

Undefined == [t |-> "undefined", n |-> 0]
Text == [t |-> "string", n |-> 0]
NaN == [t |-> "NaN", n |-> 0]
Num(h) == [t |-> "number", n |-> h]
Whole(k) == Num(2 * k)

DrawParams(tool, color, lineWidth, startX, startY, x, y) ==
    [tool |-> tool, color |-> color, lineWidth |-> lineWidth,
     startX |-> startX, startY |-> startY, x |-> x, y |-> y]

\* params: {}
NoAction ==
    DrawParams("", <<>>, Undefined, Undefined, Undefined, Undefined, Undefined)

Black == <<"#", "0", "0", "0", "0", "0", "0">>

ValidAction ==
    DrawParams("pencil", Black, Whole(2), Whole(400), Whole(300), Whole(450), Whole(350))

\* Number(value)
Number(value) == IF value.t = "number" THEN value ELSE NaN

\* value || 0
OrZero(value) == IF value.t = "NaN" \/ value.n = 0 THEN Num(0) ELSE value

MathMin(a, b) == IF a.n <= b.n THEN a ELSE b
MathMax(a, b) == IF a.n >= b.n THEN a ELSE b
\* Math.round: to the nearest integer, a half upwards
MathRound(a) == Whole((a.n + 1) \div 2)

\* clamp without Math.round.
clampUnrounded(value, min, max) ==
    MathMax(Whole(min), MathMin(Whole(max), OrZero(Number(value))))

\* const clamp = (value, min, max) =>
\*     Math.round(Math.max(min, Math.min(max, Number(value) || 0)));
clamp(value, min, max) ==
    MathRound(MathMax(Whole(min), MathMin(Whole(max), OrZero(Number(value)))))

HexDigits ==
    {"0", "1", "2", "3", "4", "5", "6", "7", "8", "9",
     "a", "b", "c", "d", "e", "f", "A", "B", "C", "D", "E", "F"}

\* /^#[0-9A-F]{6}$/i.test(color)
IsHexColor(color) ==
    /\ Len(color) = 7
    /\ color[1] = "#"
    /\ \A n \in 2..7 : color[n] \in HexDigits

\* validateColor with a pattern that lacks the i flag.
validateColorCaseSensitive(color) ==
    IF IsHexColor(color)
          /\ \A n \in 2..7 : color[n] \notin {"a", "b", "c", "d", "e", "f"}
    THEN color ELSE Black

\* const validateColor = (color) => ... ? color : '#000000';
validateColor(color) == IF IsHexColor(color) THEN color ELSE Black

\* The params the validation layer builds for a draw command.
ValidateDraw(params) ==
    DrawParams(IF params.tool # "" THEN params.tool ELSE "pencil",
               validateColor(params.color),
               clamp(params.lineWidth, MIN_LINE_WIDTH, MAX_LINE_WIDTH),
               clamp(params.startX, 0, CANVAS_WIDTH),
               clamp(params.startY, 0, CANVAS_HEIGHT),
               clamp(params.x, 0, CANVAS_WIDTH),
               clamp(params.y, 0, CANVAS_HEIGHT))

(***************************************************************************)
(* Commands.  A parameter that is absent is modelled by 0, which the code  *)
(* cannot tell from absent either (it reads them with `x || default`).     *)
(***************************************************************************)
Cmd(ep, hasParams, completed, pct, phase, dur) ==
    [endpoint |-> ep, params |-> hasParams, completedPhase |-> completed,
     completionPercentage |-> pct, currentPhase |-> phase, duration |-> dur,
     action |-> NoAction]

DrawWith(params) == [Cmd("/api/draw", TRUE, 0, 0, 0, 0) EXCEPT !.action = params]
Draw == DrawWith(ValidAction)
DrawNoParams == Cmd("/api/draw", FALSE, 0, 0, 0, 0)
Tool == Cmd("/api/tool", TRUE, 0, 0, 0, 0)
Color == Cmd("/api/color", TRUE, 0, 0, 0, 0)
Width == Cmd("/api/linewidth", TRUE, 0, 0, 0, 0)
Clear == Cmd("/api/clear", TRUE, 0, 0, 0, 0)
ClearNoParams == Cmd("/api/clear", FALSE, 0, 0, 0, 0)
Pause(d) == Cmd("/api/pause", TRUE, 0, 0, 0, d)
Continue(pct, phase) == Cmd("/api/continue", TRUE, 0, pct, phase, 0)
AdvancePhase(completed, pct) == Cmd("/api/next_phase", TRUE, completed, pct, 0, 0)
DrawingFailed(recoverable) ==
    Cmd("/api/drawing_failed", TRUE, 0, 0, 0, IF recoverable THEN 1 ELSE 0)

Msg(type, to, phase, pct) ==
    [type |-> type, to |-> to, phase |-> phase, pct |-> pct, action |-> NoAction]

OpenSessions == {s \in Sessions : sess[s].status = "open"}

\* The sessions whose readyState is OPEN but whose send raises.
Raising == {s \in Sessions : sess[s].status = "broken"}

\* wss.clients in insertion order.
ClientOrder == <<"s1", "s2">>

\* The sessions a forEach over the clients hands a message to: the open
\* ones it visits before a send raises and ends the iteration.
Recipients ==
    {s \in OpenSessions :
        \A n, m \in 1..Len(ClientOrder) :
            (ClientOrder[n] = s /\ ClientOrder[m] \in Raising) => n < m}

\* A streaming interval is counted in fifths of a millisecond, so that
\* processingTime * 1.2 is a whole number of them.
Fifths(ms) == 5 * ms

\* Math.max(min, Math.min(max, interval)), in fifths of a millisecond
boundInterval(min, max, interval) ==
    IF interval > Fifths(max)
    THEN (IF Fifths(max) < Fifths(min) THEN Fifths(min) ELSE Fifths(max))
    ELSE IF interval < Fifths(min) THEN Fifths(min) ELSE interval

\* adaptedInterval without the bounds.
adaptedIntervalUnbounded(processingTime) == 6 * processingTime

\* Math.max(MIN_STREAMING_INTERVAL,
\*          Math.min(MAX_STREAMING_INTERVAL, processingTime * 1.2))
adaptedInterval(processingTime) ==
    boundInterval(MIN_STREAMING_INTERVAL, MAX_STREAMING_INTERVAL,
                  6 * processingTime)

NewSession == [status |-> "open", originalPrompt |-> "", currentPhase |-> 1,
               streamingMode |-> FALSE, isProcessingCommand |-> FALSE,
               streamingInterval |-> Fifths(DEFAULT_STREAMING_INTERVAL),
               isAlive |-> TRUE,
               pinged |-> FALSE,    \* history: the last sweep sent it a ping
               ponged |-> FALSE,    \* history: it sent a pong since that sweep
               spared |-> FALSE,    \* history: a sweep found its ping answered
               aiPromptDisabled |-> FALSE]  \* the client's aiPrompt.disabled

Init ==
    /\ sess = [s \in Sessions |-> [NewSession EXCEPT !.status = "new"]]
    /\ canvasState = 0
    /\ canvasUpdateQueue = <<>>
    /\ timers = 0
    /\ tasks = <<>>
    /\ nextSnap = 1
    /\ planned = {}
    /\ terminalReported = {}
    /\ streamingBatchSize = DEFAULT_BATCH_SIZE
    /\ consecutiveErrors = 0
    /\ connectedClients = {}
    /\ conversationHistory = <<>>


(***************************************************************************)
(* executeCommands: the executor's frame is                                *)
(*   i              index of the command the loop is at                    *)
(*   at             the await it is suspended at ("end" once it returned)  *)
(*   shouldContinue, completionPercentage, phaseChange   its three locals  *)
(*   out            the messages it has sent since it was last resumed     *)
(*   phase          ws.currentPhase of the session it runs for             *)
(***************************************************************************)
MessageType(endpoint) ==
    CASE endpoint = "/api/clear" -> "CLEAR_CANVAS"
      [] endpoint = "/api/tool" -> "CHANGE_TOOL"
      [] endpoint = "/api/color" -> "CHANGE_COLOR"
      [] endpoint = "/api/linewidth" -> "CHANGE_LINE_WIDTH"
      [] endpoint = "/api/draw" -> "DRAW_ACTION"
      [] endpoint = "/api/pause" -> "PAUSE"
      [] OTHER -> ""

\* The validation layer reads command.params.tool of every draw command.
ValidationThrows(cmds) ==
    \E n \in 1..Len(cmds) : cmds[n].endpoint = "/api/draw" /\ ~cmds[n].params

\* const validatedCommands = commands.map(...)
validatedCommands(commands) ==
    [n \in 1..Len(commands) |->
        IF commands[n].endpoint = "/api/draw"
        THEN [commands[n] EXCEPT !.action = ValidateDraw(@)]
        ELSE commands[n]]

\* NextPhase with the range test off by one (nextPhase <= 4).
NextPhaseOffByOne(c, f, open) ==
    LET completedPhase == IF c.completedPhase # 0 THEN c.completedPhase ELSE f.phase
        nextPhase == completedPhase + 1
    IN  IF nextPhase <= LAST_PHASE + 1
        THEN [f EXCEPT !.phase = nextPhase,
                       !.out = Append(@, Msg("PHASE_CHANGE", open, nextPhase,
                                             c.completionPercentage)),
                       !.at = "phasewait"]
        ELSE f

\* if (command.endpoint === '/api/next_phase') { ... continue; }
NextPhase(c, f, open) ==
    LET completedPhase == IF c.completedPhase # 0 THEN c.completedPhase ELSE f.phase
        nextPhase == completedPhase + 1
    IN  IF nextPhase <= LAST_PHASE
        THEN [f EXCEPT !.phase = nextPhase,
                       !.out = Append(@, Msg("PHASE_CHANGE", open, nextPhase,
                                             c.completionPercentage)),
                       !.at = "phasewait"]
        ELSE f

\* ContinueCmd without the "update phase if specified" block.
ContinueCmdKeepsPhase(c, f, open) ==
    [f EXCEPT !.out = Append(@, Msg("COMPLETION_UPDATE", open, f.phase,
                                    c.completionPercentage)),
              !.shouldContinue = c.completionPercentage < STOP_THRESHOLD]

\* if (command.endpoint === '/api/continue') { ... continue; }
\* The block declares its own const completionPercentage, so the
\* function's outer completionPercentage is not assigned.
ContinueCmd(c, f, open) ==
    LET phase == IF c.currentPhase # 0 THEN c.currentPhase ELSE f.phase
    IN  [f EXCEPT !.phase = phase,
                  !.out = Append(@, Msg("COMPLETION_UPDATE", open, phase,
                                        c.completionPercentage)),
                  !.shouldContinue = c.completionPercentage < STOP_THRESHOLD]

\* wss.clients.forEach(... switch (command.endpoint) ...), then the 100 ms await
Broadcast(c, f, open) ==
    [f EXCEPT !.out = IF MessageType(c.endpoint) # ""
                      THEN Append(@, [Msg(MessageType(c.endpoint), open, 0, c.duration)
                                         EXCEPT !.action = IF c.endpoint = "/api/draw"
                                                           THEN c.action ELSE @])
                      ELSE @,
              !.at = "delay"]

\* AfterPause with the continuation addressed to the session's phase at
\* the start of the drawing instead of its current phase.
AfterPauseFirstPhase(f, open) ==
    IF f.shouldContinue /\ f.completionPercentage < STOP_THRESHOLD
    THEN [f EXCEPT !.out = Append(@, Msg("TRIGGER_CONTINUE", open, 1, 0)),
                   !.phaseChange = FALSE,
                   !.shouldContinue = FALSE]
    ELSE f

\* AfterPause without shouldContinue = false.
AfterPauseKeepsFlag(f, open) ==
    IF f.shouldContinue /\ f.completionPercentage < STOP_THRESHOLD
    THEN [f EXCEPT !.out = Append(@, Msg("TRIGGER_CONTINUE", open, f.phase, 0)),
                   !.phaseChange = FALSE]
    ELSE f

\* The code after the pause wait: if (shouldContinue && completionPercentage < 95)
AfterPause(f, open) ==
    IF f.shouldContinue /\ f.completionPercentage < STOP_THRESHOLD
    THEN [f EXCEPT !.out = Append(@, Msg("TRIGGER_CONTINUE", open, f.phase, 0)),
                   !.phaseChange = FALSE,
                   !.shouldContinue = FALSE]
    ELSE f

\* A forEach that took frame f to g: none of the sends is guarded, so if
\* it sent a message and a client's send raises, executeCommands ends
\* there with the exception.
Raise(f, g) ==
    IF Raising # {} /\ Len(g.out) > Len(f.out) THEN [g EXCEPT !.at = "threw"] ELSE g

\* The for loop from command f.i up to the next await (or the end).
RECURSIVE Dispatch(_, _, _)
Dispatch(cmds, f, open) ==
    IF f.i > Len(cmds) THEN [f EXCEPT !.at = "end"]
    ELSE LET c == cmds[f.i]
             next(g) == Dispatch(cmds, [g EXCEPT !.i = @ + 1], open)
         IN  IF ~(c.endpoint # "" /\ c.params) THEN next(f)
             ELSE IF c.endpoint = "/api/next_phase"
                  THEN LET g == Raise(f, NextPhase(c, f, open))
                       IN  IF g.at \in {"phasewait", "threw"} THEN g ELSE next(g)
             ELSE IF c.endpoint = "/api/continue"
                  THEN LET g == Raise(f, ContinueCmd(c, f, open))
                       IN  IF g.at = "threw" THEN g ELSE next(g)
             ELSE Raise(f, Broadcast(c, f, open))

\* Resume that, after the delay of a command, goes on with the command
\* after the next.
ResumeSkipsNext(cmds, f, open) ==
    CASE f.at = "phasewait" ->
            Dispatch(cmds, [f EXCEPT !.shouldContinue = TRUE, !.phaseChange = TRUE,
                                     !.at = "run", !.i = @ + 1], open)
      [] f.at = "delay" ->
            IF cmds[f.i].endpoint = "/api/pause"
            THEN [f EXCEPT !.at = "pausewait"]
            ELSE Dispatch(cmds, [f EXCEPT !.at = "run", !.i = @ + 2], open)
      [] f.at = "pausewait" ->
            LET g == Raise(f, AfterPause(f, open))
            IN  IF g.at = "threw" THEN g
                ELSE Dispatch(cmds, [g EXCEPT !.at = "run", !.i = @ + 1], open)

\* The continuation of executeCommands when the await it is suspended at
\* completes.
Resume(cmds, f, open) ==
    CASE f.at = "phasewait" ->
            Dispatch(cmds, [f EXCEPT !.shouldContinue = TRUE, !.phaseChange = TRUE,
                                     !.at = "run", !.i = @ + 1], open)
      [] f.at = "delay" ->
            IF cmds[f.i].endpoint = "/api/pause"
            THEN [f EXCEPT !.at = "pausewait"]
            ELSE Dispatch(cmds, [f EXCEPT !.at = "run", !.i = @ + 1], open)
      [] f.at = "pausewait" ->
            LET g == Raise(f, AfterPause(f, open))
            IN  IF g.at = "threw" THEN g
                ELSE Dispatch(cmds, [g EXCEPT !.at = "run", !.i = @ + 1], open)

\* let shouldContinue = false; let completionPercentage = 0; let phaseChange = false;
Frame0(phase) ==
    [i |-> 1, at |-> "run", shouldContinue |-> FALSE, completionPercentage |-> 0,
     phaseChange |-> FALSE, out |-> <<>>, phase |-> phase]

FrameOf(t, phase) ==
    [i |-> t.i, at |-> t.at, shouldContinue |-> t.shouldContinue,
     completionPercentage |-> t.completionPercentage,
     phaseChange |-> t.phaseChange, out |-> <<>>, phase |-> phase]

\* What an invocation remembers of a message it sent: all but the recipients.
Sent(m) == [type |-> m.type, phase |-> m.phase, pct |-> m.pct]
Log(t, out) == [t EXCEPT !.out = out,
                         !.sent = @ \o [n \in 1..Len(out) |-> Sent(out[n])]]

WithFrame(t, f) ==
    Log([t EXCEPT !.i = f.i, !.at = f.at, !.shouldContinue = f.shouldContinue,
                  !.completionPercentage = f.completionPercentage,
                  !.phaseChange = f.phaseChange], f.out)

NewTask(kind, s, snap) ==
    [kind |-> kind, ws |-> s, snap |-> snap, pc |-> "plan", result |-> "",
     cmds |-> <<>>, i |-> 0, at |-> "run", shouldContinue |-> FALSE,
     completionPercentage |-> 0, phaseChange |-> FALSE,
     out |-> <<>>,      \* the messages its last segment handed to transports
     sent |-> <<>>,     \* history: every message it sent, in order
     threw |-> FALSE,
     processingTime |-> 0,  \* Date.now() - startTime so far, in steps
     seen |-> {},       \* history: the snapshots its session sent meanwhile
     prompt |-> ""]     \* the prompt argument of a processUserPrompt call

\* The invocations still in flight.
Live(ts) == SelectSeq(ts, LAMBDA t : t.pc # "done")

\* ts with invocation k now t; the invocations that had settled before are
\* forgotten.
Put(ts, k, t) ==
    LET idx == SelectSeq([j \in 1..Len(ts) |-> j],
                         LAMBDA j : j = k \/ ts[j].pc # "done")
    IN  [n \in 1..Len(idx) |-> IF idx[n] = k THEN t ELSE ts[idx[n]]]

(***************************************************************************)
(* The planner boundary (services/gemini.js).  The model call is an input: *)
(* an analysis outcome (NoAnalysis when analyzeLiveCanvas returned null,   *)
(* else its completionPercentage) and a response that either throws, does  *)
(* not parse to an array, or parses to an array of commands.               *)
(***************************************************************************)
NoAnalysis == -1
Throws == [kind |-> "throws", cmds |-> <<>>]
Unparsable == [kind |-> "unparsable", cmds |-> <<>>]
Array(cmds) == [kind |-> "array", cmds |-> cmds]

Take(seq, n) == SubSeq(seq, 1, IF Len(seq) < n THEN Len(seq) ELSE n)

HasDrawCommand(cmds) == \E n \in 1..Len(cmds) : cmds[n].endpoint = "/api/draw"

\* StreamingBatch without commands.slice(0, streamingBatchSize).
StreamingBatchUncut(cmds, size) ==
    IF ~HasDrawCommand(cmds) THEN <<DrawingFailed(TRUE)>>
    ELSE IF cmds[Len(cmds)].endpoint # "/api/pause"
         THEN Append(cmds, Pause(DEFAULT_PAUSE))
         ELSE cmds

\* commands.slice(0, streamingBatchSize), the draw check, the trailing pause
StreamingBatch(cmds, size) ==
    LET batchedCommands == Take(cmds, size)
    IN  IF ~HasDrawCommand(batchedCommands) THEN <<DrawingFailed(TRUE)>>
        ELSE IF batchedCommands[Len(batchedCommands)].endpoint # "/api/pause"
             THEN Append(batchedCommands, Pause(DEFAULT_PAUSE))
             ELSE batchedCommands

streamingModeUpdate(analysis, response, size) ==
    IF analysis = NoAnalysis THEN <<DrawingFailed(TRUE)>>
    ELSE IF analysis >= STOP_THRESHOLD THEN <<Continue(100, LAST_PHASE)>>
    ELSE IF response.kind = "throws" THEN <<DrawingFailed(FALSE)>>
    ELSE IF response.kind = "unparsable" THEN <<DrawingFailed(TRUE)>>
    ELSE StreamingBatch(response.cmds, size)

\* What the round's analysis and response amount to, for the record.
StreamingResult(analysis, response, size) ==
    IF analysis = NoAnalysis THEN "failed"
    ELSE IF analysis >= STOP_THRESHOLD THEN "terminal"
    ELSE IF response.kind = "throws" THEN "fatal"
    ELSE IF response.kind = "unparsable" THEN "failed"
    ELSE IF ~HasDrawCommand(Take(response.cmds, size)) THEN "failed"
    ELSE "batch"

processUserPrompt(response) ==
    IF response.kind = "array" THEN response.cmds ELSE <<>>

\* continueDrawing without the test of the analysis' completionPercentage.
continueDrawingPastThreshold(analysis, response) ==
    IF analysis = NoAnalysis THEN <<>>
    ELSE IF response.kind = "array" THEN response.cmds
    ELSE <<>>

continueDrawing(analysis, response) ==
    IF analysis = NoAnalysis THEN <<>>
    ELSE IF analysis >= STOP_THRESHOLD THEN <<>>
    ELSE IF response.kind = "array" THEN response.cmds
    ELSE <<>>

\* streamingBatchSize = Math.max(1, Math.min(5, size))
setStreamingBatchSize(size) ==
    IF size < MIN_BATCH_SIZE THEN MIN_BATCH_SIZE
    ELSE IF size > MAX_BATCH_SIZE THEN MAX_BATCH_SIZE ELSE size

(***************************************************************************)
(* processNextCanvasUpdate up to its first await: dequeue the first entry  *)
(* of the Map and, if its session qualifies, start a planning round.       *)
(***************************************************************************)
\* Eligible without the test of ws.streamingMode.
EligibleWhenOff(ss, s) ==
    /\ ss[s].status = "open"
    /\ ss[s].originalPrompt # ""

\* Eligible without the test of ws.readyState.
EligibleWhenClosed(ss, s) ==
    /\ ss[s].streamingMode
    /\ ss[s].originalPrompt # ""

Eligible(ss, s) ==
    /\ ss[s].status = "open"
    /\ ss[s].streamingMode
    /\ ss[s].originalPrompt # ""

\* Whether processNextCanvasUpdate, called with queue q, starts a round.
StartsRound(ss, q) == q # <<>> /\ Eligible(ss, q[1].ws)

\* The effect of processNextCanvasUpdate() on (sess, queue, tasks), given
\* the values ss, q, ts they have when it is called.
ProcessNext(ss, q, ts) ==
    IF q = <<>> THEN [sess |-> ss, queue |-> q, tasks |-> ts]
    ELSE LET ws == q[1].ws
             updateData == q[1]
         IN  IF Eligible(ss, ws)
             THEN [sess |-> [ss EXCEPT ![ws].isProcessingCommand = TRUE],
                   queue |-> Tail(q),
                   tasks |-> Append(Live(ts),
                       Log(NewTask("round", ws, updateData.canvasData),
                           <<Msg("STREAMING_COMMAND_START", {ws}, 0, 0)>>))]
             ELSE [sess |-> ss, queue |-> Tail(q), tasks |-> ts]

\* An entry of canvasUpdateQueue.  toggledOff is history: streaming mode
\* was turned off for ws while the entry was pending and a round of ws was
\* in flight.
Entry(s, data) == [ws |-> s, canvasData |-> data, toggledOff |-> FALSE]

\* QueueSet on a list instead of a Map: every snapshot is added at the end.
QueueSetAppends(q, s, data) == Append(q, Entry(s, data))

\* canvasUpdateQueue.set(ws, {canvasData}): a Map keeps a key's position.
QueueSet(q, s, data) ==
    IF \E n \in 1..Len(q) : q[n].ws = s
    THEN [n \in 1..Len(q) |-> IF q[n].ws = s THEN Entry(s, data)
                                             ELSE q[n]]
    ELSE Append(q, Entry(s, data))

\* The planning rounds of session s that are in flight.
InFlight(ts, s) ==
    {k \in 1..Len(ts) : ts[k].kind = "round" /\ ts[k].ws = s /\ ts[k].pc # "done"}

(***************************************************************************)
(* Session registry                                                        *)
(***************************************************************************)
\* wss.on('connection')
Connect(s) ==
    /\ sess[s].status = "new"
    /\ sess' = [sess EXCEPT ![s] = NewSession]
    /\ connectedClients' = connectedClients \cup {s}
    /\ tasks' = IF canvasState # 0
                THEN \* the current canvas state goes to the new client
                     Append(tasks, Log([NewTask("connection", s, canvasState)
                                           EXCEPT !.pc = "done"],
                                       <<Msg("CANVAS_UPDATE", {s}, 0, 0)>>))
                ELSE tasks
    /\ UNCHANGED <<canvasState, canvasUpdateQueue, timers, nextSnap,
                   planned, terminalReported, streamingBatchSize,
                   consecutiveErrors, conversationHistory>>

\* The transport closes: readyState leaves OPEN, ws.on('close') runs.  For
\* a connection that the server terminated, only the latter is left to do.
Close(s) ==
    /\ \/ sess[s].status \in {"open", "broken"}
       \/ sess[s].status = "closed" /\ s \in connectedClients
    /\ sess' = [sess EXCEPT ![s].status = "closed"]
    /\ connectedClients' = connectedClients \ {s}
    /\ UNCHANGED <<canvasState, canvasUpdateQueue, timers, tasks, nextSnap,
                   planned, terminalReported, streamingBatchSize,
                   consecutiveErrors, conversationHistory>>

\* ws.on('pong'): s answers a ping, or sends a pong unasked
Pong(s) ==
    /\ sess[s].status = "open"
    /\ sess' = [sess EXCEPT ![s].isAlive = TRUE, ![s].ponged = TRUE]
    /\ UNCHANGED <<canvasState, canvasUpdateQueue, timers, tasks, nextSnap,
                   planned, terminalReported, streamingBatchSize,
                   consecutiveErrors, connectedClients,
                   conversationHistory>>

\* wss.clients: the connections that have not closed.
Clients == {s \in Sessions : sess[s].status \in {"open", "broken"}}

\* Heartbeat without ws.isAlive = false: a pong once is a pong for ever.
heartbeatIntervalNoReset ==
    /\ Clients # {}
    /\ sess' = [s \in Sessions |->
                   IF s \notin Clients THEN sess[s]
                   ELSE IF ~sess[s].isAlive
                   THEN [sess[s] EXCEPT !.status = "closed"]
                   ELSE [sess[s] EXCEPT !.pinged = TRUE, !.ponged = FALSE,
                                        !.spared = sess[s].pinged /\ sess[s].ponged]]
    /\ connectedClients' = connectedClients \ {s \in Clients : ~sess[s].isAlive}
    /\ UNCHANGED <<canvasState, canvasUpdateQueue, timers, tasks, nextSnap,
                   planned, terminalReported, streamingBatchSize,
                   consecutiveErrors, conversationHistory>>

\* The heartbeat sweep, every HEARTBEAT_INTERVAL: a client that is not
\* alive is removed and terminated, the others are marked and pinged.
heartbeatInterval ==
    /\ Clients # {}
    /\ sess' = [s \in Sessions |->
                   IF s \notin Clients THEN sess[s]
                   ELSE IF ~sess[s].isAlive
                   THEN [sess[s] EXCEPT !.status = "closed"]
                   ELSE [sess[s] EXCEPT !.isAlive = FALSE,
                                        !.pinged = TRUE, !.ponged = FALSE,
                                        !.spared = sess[s].pinged /\ sess[s].ponged]]
    /\ connectedClients' = connectedClients \ {s \in Clients : ~sess[s].isAlive}
    /\ UNCHANGED <<canvasState, canvasUpdateQueue, timers, tasks, nextSnap,
                   planned, terminalReported, streamingBatchSize,
                   consecutiveErrors, conversationHistory>>

\* The transport of s fails under the server: readyState is still OPEN,
\* and client.send raises from now on.
Break(s) ==
    /\ sess[s].status = "open"
    /\ sess' = [sess EXCEPT ![s].status = "broken"]
    /\ UNCHANGED <<canvasState, canvasUpdateQueue, timers, tasks, nextSnap,
                   planned, terminalReported, streamingBatchSize,
                   consecutiveErrors, connectedClients,
                   conversationHistory>>

(***************************************************************************)
(* Inbound messages.  ts is the list of invocations a new one is added to. *)
(***************************************************************************)
\* services/gemini.js keeps at most HISTORY_LIMIT entries of the conversation.
HISTORY_LIMIT == 10

\* clearConversation(): the history after the call
clearConversation == <<>>

\* h.slice(-n)
SliceLast(h, n) == IF Len(h) <= n THEN h ELSE SubSeq(h, Len(h) - n + 1, Len(h))

\* Remember that keeps the oldest HISTORY_LIMIT entries.
RememberOldest(h, prompt, text) ==
    LET pushed == h \o <<prompt, text>>
    IN  IF Len(pushed) > HISTORY_LIMIT THEN SubSeq(pushed, 1, HISTORY_LIMIT)
                                       ELSE pushed

\* processUserPrompt once the response text parsed to an array: the prompt
\* and the text are pushed, and the last HISTORY_LIMIT entries are kept.
Remember(h, prompt, text) ==
    LET pushed == h \o <<prompt, text>>
    IN  IF Len(pushed) > HISTORY_LIMIT THEN SliceLast(pushed, HISTORY_LIMIT)
                                       ELSE pushed

\* The history that a handler leaves which had h before its catch: the
\* catch, when it ran (caught) with the count at errors and reaches
\* MAX_CONSECUTIVE_ERRORS, calls clearConversation() before ws.terminate().
AfterCatch(caught, errors, h) ==
    IF caught /\ errors + 1 >= MAX_CONSECUTIVE_ERRORS THEN clearConversation
                                                      ELSE h

\* The step ran the catch of ws.on('message'): only the catch moves the
\* count in a continuation of an async invocation.
Caught == consecutiveErrors' # consecutiveErrors

\* MessageCatch without consecutiveErrors = 0 after ws.terminate().
MessageCatchNoReset(errors, ss, ws) ==
    IF errors + 1 >= MAX_CONSECUTIVE_ERRORS
    THEN /\ sess' = [ss EXCEPT ![ws].status = "closed"]
         /\ consecutiveErrors' = errors + 1 /\ UNCHANGED connectedClients
    ELSE /\ sess' = ss
         /\ consecutiveErrors' = errors + 1 /\ UNCHANGED connectedClients

\* The catch of ws.on('message'), for a message of session ws, when the
\* count is errors: the count goes up, and at MAX_CONSECUTIVE_ERRORS
\* ws.terminate() and the count back to 0.  What its clearConversation()
\* does to the history is AfterCatch, which the handlers apply.
MessageCatch(errors, ss, ws) ==
    IF errors + 1 >= MAX_CONSECUTIVE_ERRORS
    THEN /\ sess' = [ss EXCEPT ![ws].status = "closed"]
         /\ consecutiveErrors' = 0 /\ UNCHANGED connectedClients
    ELSE /\ sess' = ss
         /\ consecutiveErrors' = errors + 1 /\ UNCHANGED connectedClients

\* The messages that the catch sends to ws when the count is errors.
CatchMessages(errors, ws) ==
    (IF errors > 2 THEN <<Msg("AI_RESET", {ws}, 0, 0)>> ELSE <<>>)
    \o <<Msg("ERROR", {ws}, 0, 0), Msg("ERROR", {ws}, 0, 0)>>

\* A message of s that JSON.parse rejects
InvalidJson(s, ts) ==
    /\ sess[s].status = "open"
    /\ tasks' = Append(ts, Log([NewTask("message", s, canvasState)
                                   EXCEPT !.pc = "done", !.threw = TRUE],
                               CatchMessages(consecutiveErrors, s)))
    /\ MessageCatch(consecutiveErrors, sess, s)
    /\ conversationHistory' = AfterCatch(TRUE, consecutiveErrors, conversationHistory)
    /\ UNCHANGED <<canvasState, canvasUpdateQueue, timers, nextSnap, planned,
                   terminalReported, streamingBatchSize>>

\* CanvasUpdate under which the first snapshot stays the current one.
CanvasUpdateFirstWins(s) ==
    /\ sess[s].status = "open"
    /\ nextSnap <= MaxSnaps
    /\ canvasState' = IF canvasState = 0 THEN nextSnap ELSE canvasState
    /\ nextSnap' = nextSnap + 1
    /\ UNCHANGED <<sess, canvasUpdateQueue, timers, tasks, planned,
                   terminalReported, streamingBatchSize, connectedClients,
                   conversationHistory>>
    /\ consecutiveErrors' = 0

\* case 'CANVAS_UPDATE'
CanvasUpdate(s) ==
    LET data == nextSnap
        queued == sess[s].streamingMode /\ sess[s].originalPrompt # ""
        q1 == IF queued THEN QueueSet(canvasUpdateQueue, s, data)
                        ELSE canvasUpdateQueue
        calls == queued /\ ~sess[s].isProcessingCommand
        ts == [k \in 1..Len(tasks) |->
                  IF k \in InFlight(tasks, s)
                  THEN [tasks[k] EXCEPT !.seen = @ \cup {data}] ELSE tasks[k]]
        r == IF calls THEN ProcessNext(sess, q1, ts)
                      ELSE [sess |-> sess, queue |-> q1, tasks |-> ts]
    IN  /\ sess[s].status = "open"
        /\ nextSnap <= MaxSnaps
        /\ canvasState' = data
        /\ nextSnap' = nextSnap + 1
        /\ sess' = r.sess
        /\ canvasUpdateQueue' = r.queue
        /\ tasks' = r.tasks
        /\ planned' = IF calls /\ StartsRound(sess, q1)
                      THEN planned \cup {q1[1].canvasData} ELSE planned
        /\ UNCHANGED <<timers, terminalReported, streamingBatchSize>>
        /\ consecutiveErrors' = 0 /\ UNCHANGED <<connectedClients, conversationHistory>>

\* case 'DRAW_ACTION': broadcastToOthers(ws, {type, action: data.action}).
\* The count is 0 from the parse on; a send that raises ends the relay and
\* is caught by the handler.
DrawAction(s, action, ts) ==
    LET relayed == [Msg("DRAW_ACTION", Recipients \ {s}, 0, 0)
                       EXCEPT !.action = action]
        t == [NewTask("relay", s, canvasState) EXCEPT !.pc = "done"]
    IN  /\ sess[s].status = "open"
        /\ IF Raising = {}
           THEN /\ tasks' = Append(ts, Log(t, <<relayed>>))
                /\ consecutiveErrors' = 0 /\ UNCHANGED connectedClients
                /\ UNCHANGED sess
           ELSE /\ tasks' = Append(ts, Log([t EXCEPT !.threw = TRUE],
                                           <<relayed>> \o CatchMessages(0, s)))
                /\ MessageCatch(0, sess, s)
        /\ conversationHistory' = AfterCatch(Raising # {}, 0, conversationHistory)
        /\ UNCHANGED <<canvasState, canvasUpdateQueue, timers, nextSnap, planned,
                       terminalReported, streamingBatchSize>>

\* app.post('/api/draw'): the request body goes to every open client
ApiDraw(action, ts) ==
    /\ tasks' = Append(ts, Log([NewTask("http", "", canvasState) EXCEPT !.pc = "done"],
                               <<[Msg("DRAW_ACTION", OpenSessions, 0, 0)
                                     EXCEPT !.action = action]>>))
    /\ UNCHANGED <<sess, canvasState, canvasUpdateQueue, timers, nextSnap, planned,
                   terminalReported, streamingBatchSize,
                   consecutiveErrors, connectedClients,
                   conversationHistory>>

\* case 'AI_PROMPT', sent by the click handler of sendPromptButton, which
\* disables the AI input controls first
AiPrompt(s, prompt, streamingMode, ts) ==
    /\ sess[s].status = "open"
    /\ terminalReported' = terminalReported \ {s}
    /\ IF streamingMode
       THEN /\ sess' = [sess EXCEPT ![s].originalPrompt = prompt,
                                    ![s].currentPhase = 1,
                                    ![s].streamingMode = TRUE,
                                    ![s].aiPromptDisabled = TRUE]
            /\ UNCHANGED tasks
       ELSE /\ sess' = [sess EXCEPT ![s].originalPrompt = prompt,
                                    ![s].currentPhase = 1,
                                    ![s].aiPromptDisabled = TRUE]
            /\ tasks' = Append(ts, [NewTask("prompt", s, canvasState)
                                       EXCEPT !.prompt = prompt])
    /\ UNCHANGED <<canvasState, canvasUpdateQueue, timers, nextSnap, planned,
                   streamingBatchSize>>
    /\ consecutiveErrors' = 0 /\ UNCHANGED <<connectedClients, conversationHistory>>

\* case 'CONTINUE_DRAWING'
ContinueDrawing(s, ts) ==
    /\ sess[s].status = "open"
    /\ sess' = [sess EXCEPT ![s].originalPrompt =
                   IF @ = "" THEN "the current drawing" ELSE @]
    /\ IF sess[s].streamingMode
       THEN UNCHANGED tasks
       ELSE tasks' = Append(ts, NewTask("continue", s, canvasState))
    /\ UNCHANGED <<canvasState, canvasUpdateQueue, timers, nextSnap, planned,
                   terminalReported, streamingBatchSize>>
    /\ consecutiveErrors' = 0 /\ UNCHANGED <<connectedClients, conversationHistory>>

\* case 'TOGGLE_STREAMING_MODE' (interval 0, batchSize 0: not provided)
ToggleStreamingMode(s, enabled, interval, batchSize) ==
    /\ sess[s].status = "open"
    /\ sess' = [sess EXCEPT
                   ![s].streamingMode = enabled,
                   ![s].streamingInterval =
                       IF interval # 0
                       THEN boundInterval(MIN_STREAMING_INTERVAL,
                                          MAX_STREAMING_INTERVAL, Fifths(interval))
                       ELSE @]
    /\ streamingBatchSize' = IF batchSize # 0 THEN setStreamingBatchSize(batchSize)
                                              ELSE streamingBatchSize
    /\ canvasUpdateQueue' =
          [n \in 1..Len(canvasUpdateQueue) |->
              IF canvasUpdateQueue[n].ws = s /\ ~enabled /\ InFlight(tasks, s) # {}
              THEN [canvasUpdateQueue[n] EXCEPT !.toggledOff = TRUE]
              ELSE canvasUpdateQueue[n]]
    /\ UNCHANGED <<canvasState, timers, tasks, nextSnap, planned, terminalReported>>
    /\ consecutiveErrors' = 0 /\ UNCHANGED <<connectedClients, conversationHistory>>

(***************************************************************************)
(* Continuations of the async invocations                                  *)
(***************************************************************************)
ToSession(s) == {s} \cap OpenSessions

\* The finally block of processNextCanvasUpdate, for the round of session ws
RoundFinally(ss, ws) ==
    /\ sess' = [ss EXCEPT ![ws].isProcessingCommand = FALSE]
    /\ timers' = IF canvasUpdateQueue # <<>> THEN timers + 1 ELSE timers
    /\ UNCHANGED <<consecutiveErrors, connectedClients>>

\* The end of a segment of executeCommands run by invocation k, whose
\* record is t and whose frame is now f: either it is suspended at an
\* await, or it returned and its caller runs on to its own end.
Settle(k, t, f) ==
    LET ws == t.ws
        t1 == WithFrame(t, f)
        ss == [sess EXCEPT ![ws].currentPhase = f.phase]
    IN  IF f.at = "threw"
        THEN \* a send raised: the caller's catch reports the error
             /\ tasks' = Put(tasks, k,
                   Log([WithFrame(t, [f EXCEPT !.out = <<>>])
                           EXCEPT !.pc = "done", !.threw = TRUE],
                       Append(f.out, Msg("ERROR", ToSession(ws), 0, 0))))
             /\ IF t.kind = "round"
                THEN RoundFinally(ss, ws)
                ELSE MessageCatch(consecutiveErrors, ss, ws) /\ UNCHANGED timers
        ELSE IF f.at # "end"
        THEN /\ tasks' = Put(tasks, k, [t1 EXCEPT !.pc = "exec"])
             /\ sess' = ss
             /\ UNCHANGED <<timers, consecutiveErrors, connectedClients>>
        ELSE IF t.kind = "round"
        THEN /\ tasks' = Put(tasks, k,
                   Log([WithFrame(t, [f EXCEPT !.out = <<>>]) EXCEPT !.pc = "done"],
                       Append(f.out, Msg("STREAMING_COMMAND_COMPLETE",
                                         ToSession(ws), 0, 0))))
             /\ RoundFinally([ss EXCEPT ![ws].streamingInterval =
                                 adaptedInterval(t.processingTime * TimeStep)], ws)
        ELSE /\ tasks' = Put(tasks, k, [t1 EXCEPT !.pc = "done"])
             /\ sess' = ss
             /\ UNCHANGED <<timers, consecutiveErrors, connectedClients>>

\* executeCommands(commands, ws) from its call to its first await
StartExec(k, t) ==
    IF ValidationThrows(t.cmds)
    THEN /\ tasks' = Put(tasks, k, Log([t EXCEPT !.pc = "done", !.threw = TRUE],
                                       <<Msg("ERROR", ToSession(t.ws), 0, 0)>>))
         /\ IF t.kind = "round"
            THEN RoundFinally(sess, t.ws)      \* the round's catch and finally
            ELSE \* the message handler's catch
                 MessageCatch(consecutiveErrors, sess, t.ws) /\ UNCHANGED timers
    ELSE Settle(k, t, Dispatch(validatedCommands(t.cmds),
                               Frame0(sess[t.ws].currentPhase), Recipients))

\* sess once a terminal message (DRAWING_COMPLETE, DRAWING_FAILED or
\* STREAMING_COMPLETE) was sent to ws: its client enables the AI input
\* controls again.
Terminal(ws) ==
    [s \in Sessions |->
        IF s \in ToSession(ws) THEN [sess[s] EXCEPT !.aiPromptDisabled = FALSE]
                               ELSE sess[s]]

\* The planner call of invocation k returns: what the handler does to
\* everything but the conversation history.
PlannerReturns(k, analysis, response) ==
    LET t == tasks[k]
        ws == t.ws
    IN  /\ t.pc = "plan"
        /\ CASE t.kind = "round" ->
                  LET cmds == streamingModeUpdate(analysis, response, streamingBatchSize)
                      res == StreamingResult(analysis, response, streamingBatchSize)
                      t1 == [t EXCEPT !.cmds = cmds, !.result = res]
                  IN  /\ terminalReported' = IF res = "terminal"
                                             THEN terminalReported \cup {ws}
                                             ELSE terminalReported
                      /\ IF Len(cmds) > 0
                         THEN StartExec(k, t1)
                         ELSE \* no commands: leave streaming mode
                              /\ tasks' = Put(tasks, k, Log([t1 EXCEPT !.pc = "done"],
                                    <<Msg("STREAMING_COMPLETE", ToSession(ws), 0, 0)>>))
                              /\ RoundFinally(
                                    [Terminal(ws) EXCEPT
                                        ![ws].streamingMode = FALSE,
                                        ![ws].streamingInterval =
                                            adaptedInterval(t.processingTime * TimeStep)],
                                    ws)
             [] t.kind = "prompt" ->
                  /\ StartExec(k, [t EXCEPT !.cmds = processUserPrompt(response),
                                            !.result = "batch"])
                  /\ UNCHANGED terminalReported
             [] t.kind = "continue" ->
                  LET cmds == continueDrawing(analysis, response)
                      t1 == [t EXCEPT !.cmds = cmds, !.result = "batch"]
                  IN  /\ IF Len(cmds) > 0
                         THEN StartExec(k, t1)
                         ELSE /\ tasks' = Put(tasks, k, Log([t1 EXCEPT !.pc = "done"],
                                    <<Msg("DRAWING_COMPLETE", ToSession(ws), 0, 0)>>))
                              /\ sess' = Terminal(ws)
                              /\ UNCHANGED <<timers, consecutiveErrors, connectedClients>>
                      /\ UNCHANGED terminalReported
        /\ UNCHANGED <<canvasState, canvasUpdateQueue, nextSnap, planned,
                       streamingBatchSize>>

\* The planner call of invocation k returns, when the texts of the
\* conversation are not followed: streamingModeUpdate and continueDrawing
\* leave the history alone, and a processUserPrompt call is taken as one
\* whose push is not recorded.
PlannerReturn(k, analysis, response) ==
    /\ PlannerReturns(k, analysis, response)
    /\ conversationHistory' = AfterCatch(Caught, consecutiveErrors,
                                         conversationHistory)

\* processUserPrompt(data.prompt) of invocation k returns with the response
\* whose text is text: the history is pushed when the text parsed, and the
\* handler goes on to executeCommands.
processUserPromptReturn(k, response, text) ==
    /\ tasks[k].kind = "prompt"
    /\ PlannerReturns(k, NoAnalysis, response)
    /\ conversationHistory' =
           AfterCatch(Caught, consecutiveErrors,
                      IF response.kind = "array"
                      THEN Remember(conversationHistory, tasks[k].prompt, text)
                      ELSE conversationHistory)

\* ExecStep that abandons the batch once the session it runs for has
\* disconnected.
ExecStepUnlessClosed(k) ==
    LET t == tasks[k]
    IN  /\ t.pc = "exec"
        /\ IF sess[t.ws].status = "closed"
           THEN /\ tasks' = Put(tasks, k, [t EXCEPT !.pc = "done", !.out = <<>>])
                /\ UNCHANGED <<sess, timers, consecutiveErrors, connectedClients>>
           ELSE Settle(k, t, Resume(validatedCommands(t.cmds),
                                    FrameOf(t, sess[t.ws].currentPhase),
                                    Recipients))
        /\ conversationHistory' = AfterCatch(Caught, consecutiveErrors,
                                             conversationHistory)
        /\ UNCHANGED <<canvasState, canvasUpdateQueue, nextSnap, planned,
                       terminalReported, streamingBatchSize>>

\* The await that executeCommands of invocation k is suspended at completes.
ExecStep(k) ==
    LET t == tasks[k]
    IN  /\ t.pc = "exec"
        /\ Settle(k, t, Resume(validatedCommands(t.cmds),
                               FrameOf(t, sess[t.ws].currentPhase), Recipients))
        /\ conversationHistory' = AfterCatch(Caught, consecutiveErrors,
                                             conversationHistory)
        /\ UNCHANGED <<canvasState, canvasUpdateQueue, nextSnap, planned,
                       terminalReported, streamingBatchSize>>

\* setTimeout(processNextCanvasUpdate, 100) fires
TimerFire ==
    LET r == ProcessNext(sess, canvasUpdateQueue, tasks)
    IN  /\ timers > 0
        /\ timers' = timers - 1
        /\ sess' = r.sess
        /\ canvasUpdateQueue' = r.queue
        /\ tasks' = r.tasks
        /\ planned' = IF StartsRound(sess, canvasUpdateQueue)
                      THEN planned \cup {canvasUpdateQueue[1].canvasData} ELSE planned
        /\ UNCHANGED <<canvasState, nextSnap, terminalReported, streamingBatchSize,
                   consecutiveErrors, connectedClients,
                   conversationHistory>>

(***************************************************************************)
(* Inputs                                                                  *)
(***************************************************************************)
Analyses == {NoAnalysis, 50, STOP_THRESHOLD}

\* Model outputs of the coordinator's specification.
CoordBatches == {<<Draw, Continue(20, 1)>>, <<Tool>>}
CoordResponses == {Throws, Unparsable} \cup {Array(c) : c \in CoordBatches}

\* Model outputs of the executor's specification: every batch of at most
\* MaxBatchLen commands over ExecAlphabet.
ExecAlphabet ==
    {Draw, DrawNoParams, Tool, Color, Width, Clear, ClearNoParams,
     Pause(DEFAULT_PAUSE),
     Continue(20, 1), Continue(20, 0), Continue(50, 7), Continue(100, 3),
     AdvancePhase(1, 30), AdvancePhase(2, 99), AdvancePhase(3, 100), AdvancePhase(0, 0)}
ExecBatches == UNION {[1..n -> ExecAlphabet] : n \in 0..MaxBatchLen}
ExecResponses == {Unparsable} \cup {Array(c) : c \in ExecBatches}

Planning == {k \in 1..Len(tasks) : tasks[k].pc = "plan"}
Executing == {k \in 1..Len(tasks) : tasks[k].pc = "exec"}
AllDone == Live(tasks) = <<>>

(***************************************************************************)
(* Spec: the streaming coordinator.  Two sessions that stay connected and  *)
(* draw in streaming mode, each sending at most MaxSnaps snapshots in all. *)
(* Prompts in batch mode are the subject of SpecExec.                      *)
(***************************************************************************)
Next ==
    \/ \E s \in Sessions : Connect(s)
    \/ \E s \in Sessions : CanvasUpdate(s)
    \/ \E s \in Sessions, p \in Prompts : AiPrompt(s, p, TRUE, tasks)
    \/ \E s \in Sessions, en \in BOOLEAN : ToggleStreamingMode(s, en, 0, 0)
    \/ \E k \in Planning, a \in Analyses, r \in CoordResponses :
          PlannerReturn(k, a, r)
    \/ \E k \in Executing : ExecStep(k)
    \/ TimerFire

Spec == Init /\ [][Next]_vars

(***************************************************************************)
(* SpecExec: one session submitting prompts in batch mode, one batch at a  *)
(* time, over every batch of ExecBatches.                                  *)
(***************************************************************************)
NextExec ==
    \/ \E s \in ExecSessions : Connect(s)
    \/ \E s \in ExecSessions : Close(s)
    \/ \E s \in ExecSessions, p \in Prompts :
          AllDone /\ AiPrompt(s, p, FALSE, <<>>)
    \/ \E s \in ExecSessions :
          AllDone /\ ContinueDrawing(s, <<>>)
    \/ \E k \in Planning, r \in ExecResponses : PlannerReturn(k, 50, r)
    \/ \E k \in Executing : ExecStep(k)

SpecExec == Init /\ [][NextExec]_vars

(***************************************************************************)
(* Properties of the streaming coordinator (checked under Spec)            *)
(***************************************************************************)
Range(seq) == {seq[n] : n \in 1..Len(seq)}
HasType(msgs, type) == \E n \in 1..Len(msgs) : msgs[n].type = type

\* The step starts a planning round for session s: a snapshot is handed to
\* streamingModeUpdate and the new round is the last invocation started.
StartsRoundFor(s) ==
    /\ planned' # planned
    /\ tasks'[Len(tasks')].ws = s

\* The step ends the planning round whose record is t.
EndsRound(t) ==
    /\ Len(Live(tasks')) < Len(Live(tasks))
    /\ t \in Range(tasks')
    /\ t.kind = "round"
    /\ t.pc = "done"

\* C1: streaming mutual exclusion.  For every session, at no time are two
\* planning rounds of that session in flight together.
C1_StreamingMutualExclusion ==
    \A s \in Sessions : Cardinality(InFlight(tasks, s)) <= 1

\* C2: of two snapshots that a session sent while one of its planning rounds
\* was in flight, the earlier one is never passed to streamingModeUpdate.
C2_EarlierSnapshotDiscarded ==
    \A k \in 1..Len(tasks) :
        tasks[k].kind = "round" =>
            \A a, b \in tasks[k].seen : a < b => a \notin planned

\* C3: once streamingModeUpdate has reported a terminal analysis (>= 95%) for
\* a session, no planning round is started for that session until it submits
\* a new AI_PROMPT.
C3_NoRoundAfterTerminal ==
    [][\A s \in Sessions : s \in terminalReported => ~StartsRoundFor(s)]_vars

\* C4: whenever a planning round ends with a terminal analysis or with a
\* planner failure classified non-recoverable, the session's streamingMode
\* is false afterwards and the round has sent STREAMING_COMPLETE or
\* DRAWING_FAILED.
C4_ExitFromActive ==
    [][\A t \in Range(tasks') :
          (EndsRound(t) /\ t.result \in {"terminal", "fatal"})
          => /\ ~sess'[t.ws].streamingMode
             /\ \/ HasType(t.sent, "STREAMING_COMPLETE")
                \/ HasType(t.sent, "DRAWING_FAILED")]_vars

\* C10: a segment of executeCommands run by a planning round for a session
\* whose streamingMode is set sends no TRIGGER_CONTINUE.
C10_NoTriggerInStreamingMode ==
    [][nextSnap' = nextSnap =>
          \A t \in Range(tasks') \ Range(tasks) :
              (t.kind = "round" /\ sess[t.ws].streamingMode)
              => ~HasType(t.out, "TRIGGER_CONTINUE")]_vars

(***************************************************************************)
(* Properties of the command executor (checked under SpecExec, where one   *)
(* invocation runs at a time: tasks is empty or holds that invocation)     *)
(***************************************************************************)
Min(a, b) == IF a < b THEN a ELSE b

\* The step runs a segment of executeCommands.
ExecutorStep ==
    /\ tasks # <<>>
    /\ tasks' # <<>>
    /\ tasks' # tasks
    /\ tasks'[1].pc # "plan"

\* The commands the segment dispatches: from the one after the await it was
\* suspended at up to the one whose await it stops at.
Batch == tasks'[1].cmds
Processed == (tasks[1].i + 1)..Min(tasks'[1].i, Len(Batch))

PhaseBefore == sess[tasks'[1].ws].currentPhase
PhaseAfter == sess'[tasks'[1].ws].currentPhase

IsAdvancePhase(c) == c.endpoint = "/api/next_phase"
IsContinue(c) == c.endpoint = "/api/continue"
IsPause(c) == c.endpoint = "/api/pause"
SetsPhase(c) == IsAdvancePhase(c) \/ (IsContinue(c) /\ c.currentPhase # 0)

\* C5: under AdvancePhase commands, with any completedPhase values, a
\* session's currentPhase never decreases and is never taken above 3.
C5_PhaseMonotonicity ==
    [][(ExecutorStep /\ \A n \in Processed : IsAdvancePhase(Batch[n]))
       => /\ PhaseAfter >= PhaseBefore
          /\ PhaseBefore <= LAST_PHASE => PhaseAfter <= LAST_PHASE]_vars

OutOfRange(c, phase) ==
    /\ IsAdvancePhase(c)
    /\ (IF c.completedPhase # 0 THEN c.completedPhase ELSE phase) + 1 > LAST_PHASE

\* C7: a segment that dispatches only out-of-range AdvancePhase commands
\* (and then at most the operation it stops at) broadcasts no PHASE_CHANGE,
\* keeps the session's currentPhase and does not set shouldContinue (which
\* is set in such a segment only by the AdvancePhase whose settle delay the
\* segment resumes from).
C7_AdvancePastLastPhase ==
    [][(/\ ExecutorStep
        /\ \E n \in Processed : OutOfRange(Batch[n], PhaseBefore)
        /\ \A n \in Processed :
              \/ OutOfRange(Batch[n], PhaseBefore)
              \/ n = tasks'[1].i /\ ~IsAdvancePhase(Batch[n]) /\ ~IsContinue(Batch[n]))
       => /\ ~HasType(tasks'[1].out, "PHASE_CHANGE")
          /\ PhaseAfter = PhaseBefore
          /\ tasks'[1].shouldContinue =>
                (tasks[1].shouldContinue \/ tasks[1].at = "phasewait")]_vars

\* A batch ending in AdvancePhase{completedPhase: 3} has run to its end at
\* phase 3 and sent what its first two commands send.
C7_Witness ==
    /\ tasks # <<>>
    /\ tasks[1].pc = "done"
    /\ tasks[1].cmds = <<Continue(100, 3), Draw, AdvancePhase(3, 100)>>
    /\ sess[tasks[1].ws].currentPhase = LAST_PHASE
    /\ ~tasks[1].shouldContinue
    /\ Len(tasks[1].sent) = 2

\* The executor is in the pause wait of command tasks[1].i.
AtPauseWait ==
    /\ tasks # <<>>
    /\ tasks[1].pc = "exec"
    /\ tasks[1].at = "pausewait"

\* The message types of the operations among the first i commands (a
\* command without params is not executed).
RECURSIVE OperationTypes(_, _)
OperationTypes(cmds, i) ==
    IF i = 0 THEN <<>>
    ELSE IF cmds[i].params /\ MessageType(cmds[i].endpoint) # ""
         THEN Append(OperationTypes(cmds, i - 1), MessageType(cmds[i].endpoint))
         ELSE OperationTypes(cmds, i - 1)

\* The types of the operations invocation t has broadcast, in order.
Broadcasts(t) ==
    LET types == [n \in 1..Len(t.sent) |-> t.sent[n].type]
    IN  SelectSeq(types, LAMBDA x : x \notin {"PHASE_CHANGE", "COMPLETION_UPDATE",
                                              "TRIGGER_CONTINUE"})

\* During the pause wait every operation up to the Pause has been broadcast,
\* in order, the PAUSE last of all messages.
PauseBroadcast ==
    /\ Broadcasts(tasks[1]) = OperationTypes(tasks[1].cmds, tasks[1].i)
    /\ tasks[1].sent[Len(tasks[1].sent)].type = "PAUSE"

Reports(c) ==
    \/ IsContinue(c)
    \/ IsAdvancePhase(c) /\ c.completedPhase \in 1..(LAST_PHASE - 1)

\* C9: TRIGGER_CONTINUE is sent after a pause wait only if the completion
\* percentage most recently reported in the batch, by a Continue or an
\* AdvancePhase, is below 95.
C9_StopThreshold ==
    [][\A n \in 1..MaxBatchLen :
          (/\ AtPauseWait
           /\ tasks' # tasks
           /\ n < tasks[1].i
           /\ Reports(tasks[1].cmds[n])
           /\ tasks[1].cmds[n].completionPercentage >= STOP_THRESHOLD
           /\ \A m \in (n + 1)..(tasks[1].i - 1) :
                 ~IsContinue(tasks[1].cmds[m]) /\ ~IsAdvancePhase(tasks[1].cmds[m]))
          => ~HasType(tasks'[1].out, "TRIGGER_CONTINUE")]_vars

(***************************************************************************)
(* SpecShared: two sessions sharing the canvas in batch mode, either of    *)
(* which may submit a prompt and may disconnect at any time; one batch at  *)
(* a time, over every batch of at most MaxSharedLen commands of            *)
(* SharedAlphabet.  The sessions being interchangeable, they connect in    *)
(* the order of ClientOrder, which is then the order of wss.clients.       *)
(***************************************************************************)
MaxSharedLen == 2

\* Session s is the next to connect.
JoinsNext(s) ==
    \A n \in 1..Len(ClientOrder) :
        ClientOrder[n] = s =>
            \A m \in 1..(n - 1) : sess[ClientOrder[m]].status # "new"

SharedAlphabet ==
    {Draw, Tool, ClearNoParams, Pause(DEFAULT_PAUSE), Continue(20, 1),
     AdvancePhase(1, 30)}
SharedBatches == UNION {[1..n -> SharedAlphabet] : n \in 0..MaxSharedLen}
SharedResponses == {Array(c) : c \in SharedBatches}

NextShared ==
    \/ \E s \in Sessions : JoinsNext(s) /\ Connect(s)
    \/ \E s \in Sessions : Close(s)
    \/ \E s \in Sessions, p \in Prompts : AllDone /\ AiPrompt(s, p, FALSE, <<>>)
    \/ \E k \in Planning, r \in SharedResponses : PlannerReturn(k, 50, r)
    \/ \E k \in Executing : ExecStep(k)

SpecShared == Init /\ [][NextShared]_vars

\* SpecShared with transports that may start to raise.
NextFault ==
    \/ NextShared
    \/ \E s \in Sessions : Break(s)

SpecFault == Init /\ [][NextFault]_vars

(***************************************************************************)
(* SpecDraw: the ways a draw action reaches the clients.  Two sessions;    *)
(* one plans single draw commands in batch mode, both relay draw actions   *)
(* of their own, and draw actions are posted to /api/draw.  The parameters *)
(* are those of a draw command that is valid, of one that has none, and of *)
(* one with three fields out of range; the planner's commands have one of  *)
(* their fields replaced in turn by every raw value of that field, the raw *)
(* numbers lying within MaxOver of either end of the field's range.        *)
(***************************************************************************)
MaxOver == 2

Tools == {"pencil", "brush", "rectangle", "circle", "fill", "spray", "eraser"}

RawTools == Tools \cup {"", "laser"}

RawColors ==
    {Black,
     <<"#", "a", "B", "c", "D", "e", "F">>,
     <<"#", "a", "b", "c">>,
     <<"#", "1", "2">>,
     <<"#", "1", "2", "3", "4", "5", "G">>,
     <<"#", "1", "2", "3", "4", "5", "6", "7">>,
     <<"r", "e", "d">>,
     <<>>}

RawNumbers(min, max) ==
    {Undefined, Text}
        \cup {Num(h) : h \in (2 * (min - MaxOver))..(2 * (min + MaxOver))}
        \cup {Num(h) : h \in (2 * (max - MaxOver))..(2 * (max + MaxOver))}

\* {tool: "pencil", color: "#12", lineWidth: 500, startX: -10, startY: 900,
\*  x: 10, y: 10}
OutOfRangeAction ==
    DrawParams("pencil", <<"#", "1", "2">>, Whole(500), Whole(-10), Whole(900),
               Whole(10), Whole(10))

BaseActions == {ValidAction, NoAction, OutOfRangeAction}

RawActions ==
    UNION {
        {[b EXCEPT !.tool = v] : v \in RawTools}
            \cup {[b EXCEPT !.color = v] : v \in RawColors}
            \cup {[b EXCEPT !.lineWidth = v] :
                      v \in RawNumbers(MIN_LINE_WIDTH, MAX_LINE_WIDTH)}
            \cup {[b EXCEPT !.startX = v] : v \in RawNumbers(0, CANVAS_WIDTH)}
            \cup {[b EXCEPT !.startY = v] : v \in RawNumbers(0, CANVAS_HEIGHT)}
            \cup {[b EXCEPT !.x = v] : v \in RawNumbers(0, CANVAS_WIDTH)}
            \cup {[b EXCEPT !.y = v] : v \in RawNumbers(0, CANVAS_HEIGHT)}
        : b \in BaseActions}

DrawResponses == {Array(<<DrawWith(a)>>) : a \in RawActions}

NextDraw ==
    \/ \E s \in Sessions : JoinsNext(s) /\ Connect(s)
    \/ \E s \in ExecSessions, p \in Prompts : AllDone /\ AiPrompt(s, p, FALSE, <<>>)
    \/ \E k \in Planning, r \in DrawResponses : PlannerReturn(k, 50, r)
    \/ \E k \in Executing : ExecStep(k)
    \/ \E s \in Sessions, a \in BaseActions : AllDone /\ DrawAction(s, a, <<>>)
    \/ \E a \in BaseActions : AllDone /\ ApiDraw(a, <<>>)

SpecDraw == Init /\ [][NextDraw]_vars

(***************************************************************************)
(* Properties of the broadcast (checked under SpecShared)                  *)
(***************************************************************************)
\* The types of the messages the first i commands send whatever the phase
\* is: an operation's message, a Continue's COMPLETION_UPDATE.
RECURSIVE CommandTypes(_, _)
CommandTypes(cmds, i) ==
    IF i = 0 THEN <<>>
    ELSE LET c == cmds[i]
             before == CommandTypes(cmds, i - 1)
         IN  IF ~(c.endpoint # "" /\ c.params) THEN before
             ELSE IF IsContinue(c) THEN Append(before, "COMPLETION_UPDATE")
             ELSE IF MessageType(c.endpoint) # ""
                  THEN Append(before, MessageType(c.endpoint))
                  ELSE before

\* The messages of those types that invocation t has sent, in order.
CommandMessages(t) ==
    LET types == [n \in 1..Len(t.sent) |-> t.sent[n].type]
    IN  SelectSeq(types, LAMBDA x : x \notin {"PHASE_CHANGE", "TRIGGER_CONTINUE",
                                              "ERROR", "DRAWING_COMPLETE"})

\* The types of the messages executeCommands broadcasts.
BroadcastTypes ==
    {"CLEAR_CANVAS", "CHANGE_TOOL", "CHANGE_COLOR", "CHANGE_LINE_WIDTH",
     "DRAW_ACTION", "PAUSE", "COMPLETION_UPDATE", "PHASE_CHANGE",
     "TRIGGER_CONTINUE"}

C12_MalformedNeverAborts ==
    \A k \in 1..Len(tasks) :
        (tasks[k].kind # "round" /\ tasks[k].pc = "done")
        => /\ ~tasks[k].threw
           /\ CommandMessages(tasks[k]) =
                 CommandTypes(tasks[k].cmds, Len(tasks[k].cmds))

\* C13: transport failure isolation.  If handing a message to one session's
\* transport raises, the message still reaches every other open session,
\* and the remaining commands of the batch are still executed (checked
\* under SpecFault).
C13_TransportFailureIsolated ==
    [][ExecutorStep =>
          LET t == tasks'[1]
          IN  /\ \A j \in 1..Len(t.out) :
                    t.out[j].type \in BroadcastTypes => OpenSessions \subseteq t.out[j].to
              /\ t.pc = "done" =>
                    CommandMessages(t) = CommandTypes(t.cmds, Len(t.cmds))]_vars

(***************************************************************************)
(* Disconnection during a batch                                            *)
(***************************************************************************)
\* The session the first invocation runs for has disconnected.
InitiatorClosed == tasks # <<>> /\ sess[tasks[1].ws].status = "closed"

\* C14: no mid-batch cancellation.  Once the session that initiated a batch
\* has disconnected, executeCommands still runs the batch to its end: each
\* step goes on with the next commands in order, hands their messages to
\* every session that is still open, and returns only after the last
\* command (checked under SpecShared).
C14_NoMidBatchCancellation ==
    [][(InitiatorClosed /\ ExecutorStep) =>
          LET t == tasks'[1]
          IN  /\ ~t.threw
              /\ t.pc = "done" <=> t.i > Len(t.cmds)
              /\ CommandMessages(t) = CommandTypes(t.cmds, Min(t.i, Len(t.cmds)))
              /\ \A j \in 1..Len(t.out) :
                    t.out[j].type \in BroadcastTypes =>
                        t.out[j].to = OpenSessions \ {t.ws}]_vars

\* The initiator s1 has gone, and the second command of its batch has just
\* been handed to s2 alone.
C14_Witness ==
    /\ InitiatorClosed
    /\ tasks[1].ws = "s1"
    /\ sess["s2"].status = "open"
    /\ tasks[1].cmds = <<Draw, Tool>>
    /\ tasks[1].pc = "exec"
    /\ tasks[1].i = 2
    /\ tasks[1].out = <<Msg("CHANGE_TOOL", {"s2"}, 0, 0)>>

(***************************************************************************)
(* Properties of the validation of draw commands (SpecDraw)                *)
(***************************************************************************)
\* executeCommands has just handed the draw command it is at to the clients.
Validating ==
    /\ tasks # <<>>
    /\ tasks[1].kind = "prompt"
    /\ tasks[1].pc = "exec"
    /\ tasks[1].at = "delay"
    /\ tasks[1].cmds[tasks[1].i].endpoint = "/api/draw"

\* The params the planner gave that command, and the action the clients got.
RawParams == tasks[1].cmds[tasks[1].i].action
ValidatedParams == tasks[1].out[Len(tasks[1].out)].action

NumericFields == {"lineWidth", "startX", "startY", "x", "y"}
Coordinates == {"startX", "startY", "x", "y"}

Lowest(field) == IF field = "lineWidth" THEN MIN_LINE_WIDTH ELSE 0
Highest(field) ==
    CASE field = "lineWidth" -> MAX_LINE_WIDTH
      [] field \in {"startX", "x"} -> CANVAS_WIDTH
      [] field \in {"startY", "y"} -> CANVAS_HEIGHT

IsNumber(value) == value.t = "number"
IsWhole(value) == IsNumber(value) /\ value.n % 2 = 0
Within(value, field) ==
    IsNumber(value) /\ 2 * Lowest(field) <= value.n /\ value.n <= 2 * Highest(field)

\* All seven fields populated and within range.
InRange(action) ==
    /\ action.tool \in Tools
    /\ IsHexColor(action.color)
    /\ \A field \in NumericFields : Within(action[field], field)

\* C15: validator range guarantee.  Whatever the raw draw command, the
\* validated one has its tool among the seven tools, a colour of the form
\* #RRGGBB, lineWidth in [1,50], startX and x in [0,800], startY and y in
\* [0,600].
C15_ValidatedInRange == Validating => InRange(ValidatedParams)

\* A draw command that is already valid.
IsValid(action) ==
    InRange(action) /\ \A field \in NumericFields : IsWhole(action[field])

\* C16: validator idempotence.  A draw command that is already valid is
\* handed on equal to the input in all seven fields, and validating the
\* result again gives the same.
C16_ValidUnchanged ==
    (Validating /\ IsValid(RawParams))
    => /\ ValidatedParams = RawParams
       /\ ValidateDraw(ValidatedParams) = ValidatedParams

\* A valid command with a colour in mixed case has been handed on.
C16_Witness ==
    /\ Validating
    /\ IsValid(RawParams)
    /\ RawParams.color = <<"#", "a", "B", "c", "D", "e", "F">>
    /\ ValidatedParams = RawParams

\* The centred default of a coordinate.
CentredDefault(field) ==
    CASE field = "startX" -> 400
      [] field = "startY" -> 300
      [] field = "x" -> 450
      [] field = "y" -> 350

\* C17: validator defaults.  A coordinate that is missing or not a number
\* becomes the centred default of its field (startX 400, startY 300, x 450,
\* y 350), and a missing lineWidth becomes 2.
C17_CentredDefaults ==
    Validating
    => /\ \A field \in Coordinates :
             ~IsNumber(RawParams[field])
             => ValidatedParams[field] = Whole(CentredDefault(field))
       /\ RawParams.lineWidth = Undefined => ValidatedParams.lineWidth = Whole(2)

\* #RGB
IsShortHexColor(color) ==
    /\ Len(color) = 4
    /\ color[1] = "#"
    /\ \A n \in 2..4 : color[n] \in HexDigits

\* #RGB with each digit doubled
Expanded(color) ==
    <<"#", color[2], color[2], color[3], color[3], color[4], color[4]>>

\* C18: validator colour repair.  A colour of the form #RRGGBB is kept, one
\* of the form #RGB is expanded with each digit doubled, and every other
\* colour becomes #000000.
C18_ColourRepair ==
    Validating
    => ValidatedParams.color =
          IF IsHexColor(RawParams.color) THEN RawParams.color
          ELSE IF IsShortHexColor(RawParams.color) THEN Expanded(RawParams.color)
          ELSE Black

\* The bound of its range nearest to a number outside it.
NearestBound(value, field) ==
    IF value.n < 2 * Lowest(field) THEN Whole(Lowest(field)) ELSE Whole(Highest(field))

\* C19: validator clamping.  A number outside the range of its field is
\* replaced by the nearest bound of the range, and a number inside the
\* range is kept.
C19_ClampedOrKept ==
    Validating
    => \A field \in NumericFields :
          IsNumber(RawParams[field])
          => ValidatedParams[field] =
                IF Within(RawParams[field], field) THEN RawParams[field]
                ELSE NearestBound(RawParams[field], field)

\* C19 as amended: a number outside its range is replaced by the nearest
\* bound, a whole number inside its range is kept, and any other number
\* inside its range is replaced by the nearest whole number, the upper one
\* when it lies halfway.
C19_ClampedOrRounded ==
    Validating
    => \A field \in NumericFields :
          LET raw == RawParams[field]
              got == ValidatedParams[field]
          IN  IsNumber(raw)
              => IF ~Within(raw, field) THEN got = NearestBound(raw, field)
                 ELSE IF IsWhole(raw) THEN got = raw
                 ELSE IsWhole(got) /\ got.n - raw.n = 1

\* The command of scenario B has been validated: lineWidth 500 became 50,
\* startX -10 became 0 and startY 900 became 600, x and y stayed 10.
C19_Witness ==
    /\ Validating
    /\ RawParams = OutOfRangeAction
    /\ ValidatedParams.lineWidth = Whole(MAX_LINE_WIDTH)
    /\ ValidatedParams.startX = Whole(0)
    /\ ValidatedParams.startY = Whole(CANVAS_HEIGHT)
    /\ ValidatedParams.x = Whole(10)
    /\ ValidatedParams.y = Whole(10)

\* C20: every DRAW_ACTION a session is handed, by an executor batch, by the
\* relay of another client's DRAW_ACTION or by a post to /api/draw, carries
\* an action with all seven fields populated and within range.
C20_DeliveredInRange ==
    \A k \in 1..Len(tasks) :
        \A j \in 1..Len(tasks[k].out) :
            LET m == tasks[k].out[j]
            IN  (m.type = "DRAW_ACTION" /\ m.to # {}) => InRange(m.action)

(***************************************************************************)
(* Failure of a planning round                                             *)
(***************************************************************************)
\* C21: a planning round that fails recoverably (no analysis, output that
\* does not parse, a batch without a draw command) sends DRAWING_FAILED to
\* its session and leaves the session's streamingMode as it was.
C21_RecoverableFailureNotified ==
    [][\A t \in Range(tasks') :
          (EndsRound(t) /\ t.result = "failed")
          => /\ HasType(t.sent, "DRAWING_FAILED")
             /\ sess'[t.ws].streamingMode = sess[t.ws].streamingMode]_vars

(***************************************************************************)
(* SpecPlanner: the planner boundary.  One session that submits prompts in *)
(* either mode, asks for continuations, sets the batch size and sends at   *)
(* most MaxRounds snapshots, one planner call at a time; every planner     *)
(* call gets every analysis of Analyses and every response of              *)
(* PlannerResponses: a model call that throws, an output that does not     *)
(* parse, and every array of at most MaxPlanLen commands of PlanAlphabet.  *)
(* The batch sizes asked for go MaxOver beyond the limits.                 *)
(***************************************************************************)
MaxPlanLen == 2
MaxRounds == 1

PlanAlphabet == {Draw, Tool, Pause(DEFAULT_PAUSE)}
PlanBatches == UNION {[1..n -> PlanAlphabet] : n \in 0..MaxPlanLen}
PlannerResponses == {Throws, Unparsable} \cup {Array(c) : c \in PlanBatches}

BatchSizes == (MIN_BATCH_SIZE - MaxOver)..(MAX_BATCH_SIZE + MaxOver)

NextPlanner ==
    \/ \E s \in ExecSessions : Connect(s)
    \/ \E s \in ExecSessions : AllDone /\ nextSnap <= MaxRounds /\ CanvasUpdate(s)
    \/ \E s \in ExecSessions, p \in Prompts, streamingMode \in BOOLEAN :
          AllDone /\ AiPrompt(s, p, streamingMode, <<>>)
    \/ \E s \in ExecSessions : AllDone /\ ContinueDrawing(s, <<>>)
    \/ \E s \in ExecSessions, en \in BOOLEAN, size \in BatchSizes :
          ToggleStreamingMode(s, en, 0, size)
    \/ \E k \in Planning, a \in Analyses, r \in PlannerResponses :
          PlannerReturn(k, a, r)
    \/ \E k \in Executing : ExecStep(k)

SpecPlanner == Init /\ [][NextPlanner]_vars

\* The place in tasks' of the invocation that is at place k in tasks, after
\* a step of that invocation.
PlaceOf(k) == Cardinality({j \in 1..k : j = k \/ tasks[j].pc # "done"})

\* The model call failed, its output does not parse to an array, or (for
\* the operations that analyse the canvas first) the analysis failed or says
\* that nothing is left to draw.
PlanFails(kind, analysis, response) ==
    \/ response.kind # "array"
    \/ kind # "prompt" /\ (analysis = NoAnalysis \/ analysis >= STOP_THRESHOLD)

RoundPlanned(k) ==
    /\ tasks[k].kind = "round"
    /\ \E a \in Analyses, r \in PlannerResponses : PlannerReturn(k, a, r)

\* C23: streaming batch cap.  streamingBatchSize is within [1,5] whatever
\* sizes were asked for, and every batch that streamingModeUpdate returns
\* has at most streamingBatchSize commands.
C23_BatchCap ==
    [][/\ streamingBatchSize' \in MIN_BATCH_SIZE..MAX_BATCH_SIZE
       /\ \A k \in Planning :
             RoundPlanned(k) => Len(tasks'[PlaceOf(k)].cmds) <= streamingBatchSize]_vars

\* C23 as amended: streamingBatchSize is within [1,5], and a batch that
\* streamingModeUpdate returns has at most streamingBatchSize commands of
\* the model's output, followed by the pause that streamingModeUpdate adds
\* when the last of them is not a pause: at most streamingBatchSize + 1 in
\* all.
C23_BatchCapAndPause ==
    [][/\ streamingBatchSize' \in MIN_BATCH_SIZE..MAX_BATCH_SIZE
       /\ \A k \in Planning :
             RoundPlanned(k)
             => LET cmds == tasks'[PlaceOf(k)].cmds
                    size == streamingBatchSize
                IN  \/ Len(cmds) <= size
                    \/ /\ Len(cmds) = size + 1
                       /\ cmds[size + 1] = Pause(DEFAULT_PAUSE)
                       /\ cmds[size].endpoint # "/api/pause"]_vars

\* With the batch size at its least, a round got one command of the model's
\* output and the added pause.
C23_Witness ==
    /\ streamingBatchSize = MIN_BATCH_SIZE
    /\ \E k \in 1..Len(tasks) :
          /\ tasks[k].kind = "round"
          /\ tasks[k].pc = "exec"
          /\ tasks[k].i = 1
          /\ tasks[k].cmds = <<Draw, Pause(DEFAULT_PAUSE)>>

(***************************************************************************)
(* SpecInterval: the streaming interval.  Two sessions; the first draws in *)
(* streaming mode, at most MaxRounds snapshots, while the interval is set  *)
(* over the socket and over the two endpoints, and the processing time of  *)
(* a round is any number of steps up to MaxProcessingTime.                 *)
(***************************************************************************)
MaxProcessingTime == 2

\* The first client in wss.clients whose send raises.
FirstRaising ==
    {s \in Raising :
        \A n, m \in 1..Len(ClientOrder) :
            (ClientOrder[n] = s /\ ClientOrder[m] \in Raising) => n <= m}

\* The clients that a forEach over wss.clients assigns to before it sends.
Assigned == Recipients \cup FirstRaising

\* app.post('/api/streaming-rate')
ApiStreamingRate(rate, ts) ==
    /\ sess' = [s \in Sessions |->
                   IF s \in Assigned
                   THEN [sess[s] EXCEPT !.streamingInterval =
                            boundInterval(100, 2000, Fifths(rate))]
                   ELSE sess[s]]
    /\ tasks' = Append(ts, Log([NewTask("http", "", canvasState) EXCEPT !.pc = "done"],
                               <<Msg("STREAMING_RATE_UPDATE", Recipients, 0, 0)>>))
    /\ UNCHANGED <<canvasState, canvasUpdateQueue, timers, nextSnap, planned,
                   terminalReported, streamingBatchSize,
                   consecutiveErrors, connectedClients,
                   conversationHistory>>

\* app.post('/api/streaming-mode') (interval 0, batchSize 0: not provided)
ApiStreamingMode(enabled, interval, batchSize, ts) ==
    /\ streamingBatchSize' = IF batchSize # 0 THEN setStreamingBatchSize(batchSize)
                                              ELSE streamingBatchSize
    /\ sess' = [s \in Sessions |->
                   IF s \in Assigned
                   THEN [sess[s] EXCEPT
                            !.streamingMode = enabled,
                            !.streamingInterval =
                                IF interval # 0
                                THEN boundInterval(100, 2000, Fifths(interval))
                                ELSE @]
                   ELSE sess[s]]
    /\ tasks' = Append(ts, Log([NewTask("http", "", canvasState) EXCEPT !.pc = "done"],
                               <<Msg("STREAMING_MODE_UPDATE", Recipients, 0, 0)>>))
    /\ UNCHANGED <<canvasState, canvasUpdateQueue, timers, nextSnap, planned,
                   terminalReported, consecutiveErrors, connectedClients,
                   conversationHistory>>

\* Time passes while round k awaits the planner or the executor.
Elapse(k) ==
    /\ tasks[k].kind = "round"
    /\ tasks[k].pc # "done"
    /\ tasks[k].processingTime < MaxProcessingTime
    /\ tasks' = Put(tasks, k, [tasks[k] EXCEPT !.processingTime = @ + 1])
    /\ UNCHANGED <<sess, canvasState, canvasUpdateQueue, timers, nextSnap,
                   planned, terminalReported, streamingBatchSize,
                   consecutiveErrors, connectedClients,
                   conversationHistory>>

\* Integer intervals: not provided, below both lower bounds, between them,
\* the default, above the upper bound.
Intervals ==
    {0, 100 - MaxOver, MIN_STREAMING_INTERVAL - MaxOver,
     DEFAULT_STREAMING_INTERVAL, MAX_STREAMING_INTERVAL + MaxOver}

NextInterval ==
    \/ \E s \in Sessions : Connect(s)
    \/ \E s \in ExecSessions : AllDone /\ nextSnap <= MaxRounds /\ CanvasUpdate(s)
    \/ \E s \in ExecSessions, p \in Prompts : AllDone /\ AiPrompt(s, p, TRUE, <<>>)
    \/ \E s \in Sessions, en \in BOOLEAN, interval \in Intervals :
          ToggleStreamingMode(s, en, interval, 0)
    \/ \E rate \in Intervals : AllDone /\ ApiStreamingRate(rate, <<>>)
    \/ \E en \in BOOLEAN, interval \in Intervals :
          AllDone /\ ApiStreamingMode(en, interval, 0, <<>>)
    \/ \E k \in Planning, a \in Analyses, r \in CoordResponses :
          PlannerReturn(k, a, r)
    \/ \E k \in Executing : ExecStep(k)
    \/ \E k \in 1..Len(tasks) : Elapse(k)

SpecInterval == Init /\ [][NextInterval]_vars

\* C24: the streamingInterval of every session is within [100, 2000] ms,
\* whatever integer intervals and rates were asked for over the socket and
\* the endpoints and whatever the processing time of the rounds was.
C24_IntervalWithinBounds ==
    \A s \in Sessions :
        sess[s].status # "new"
        => /\ sess[s].streamingInterval >= Fifths(100)
           /\ sess[s].streamingInterval <= Fifths(2000)

\* One session was set to the least interval by an endpoint, and the other
\* to the greatest by a round whose processing time, scaled, exceeds it.
C24_Witness ==
    \E s \in Sessions, k \in 1..Len(tasks) :
        /\ sess[s].status = "open"
        /\ sess[s].streamingInterval = Fifths(100)
        /\ tasks[k].kind = "round"
        /\ tasks[k].pc = "done"
        /\ tasks[k].ws # s
        /\ 6 * tasks[k].processingTime * TimeStep > Fifths(MAX_STREAMING_INTERVAL)
        /\ sess[tasks[k].ws].streamingInterval = Fifths(MAX_STREAMING_INTERVAL)

(***************************************************************************)
(* SpecErrors: failing messages.  Two sessions; either sends messages that *)
(* do not parse, relays draw actions and toggles streaming mode, and the   *)
(* transport of either may fail under the server.                          *)
(***************************************************************************)
NextErrors ==
    \/ \E s \in Sessions : Connect(s)
    \/ \E s \in Sessions : Break(s)
    \/ \E s \in Sessions : InvalidJson(s, <<>>)
    \/ \E s \in Sessions : DrawAction(s, ValidAction, <<>>)
    \/ \E s \in Sessions, en \in BOOLEAN : ToggleStreamingMode(s, en, 0, 0)

SpecErrors == Init /\ [][NextErrors]_vars

\* The step is a message of s that fails: it does not parse, or its handler
\* raises.
MessageFails(s) ==
    \/ InvalidJson(s, <<>>)
    \/ DrawAction(s, ValidAction, <<>>) /\ Raising # {}

\* C25: forced disconnect on repeated errors.  Every inbound message that
\* fails, be it invalid JSON or an exception of its handler, adds one to
\* the consecutive-error counter, and the message that brings it to
\* MAX_CONSECUTIVE_ERRORS has its session terminated and the counter set
\* back to 0.
C25_ForcedDisconnect ==
    [][\A s \in Sessions :
          MessageFails(s)
          => IF consecutiveErrors + 1 >= MAX_CONSECUTIVE_ERRORS
             THEN sess'[s].status = "closed" /\ consecutiveErrors' = 0
             ELSE consecutiveErrors' = consecutiveErrors + 1]_vars

(***************************************************************************)
(* SpecHeartbeat: the liveness sweep.  Two sessions that connect, answer   *)
(* pings or not, send messages that do not parse, and close, between       *)
(* sweeps.                                                                 *)
(***************************************************************************)
NextHeartbeat ==
    \/ \E s \in Sessions : Connect(s)
    \/ \E s \in Sessions : Close(s)
    \/ \E s \in Sessions : Pong(s)
    \/ \E s \in Sessions : InvalidJson(s, <<>>)
    \/ \E s \in Sessions, en \in BOOLEAN : ToggleStreamingMode(s, en, 0, 0)
    \/ heartbeatInterval

SpecHeartbeat == Init /\ [][NextHeartbeat]_vars

\* C26: liveness sweep.  At a sweep, a connection that the sweep before
\* pinged and that sent no pong since is terminated and removed from
\* connectedClients, and a connection that sent a pong since that ping is
\* neither.
C26_LivenessSweep ==
    [][heartbeatInterval
       => \A s \in Clients :
             /\ (sess[s].pinged /\ ~sess[s].ponged)
                => sess'[s].status = "closed" /\ s \notin connectedClients'
             /\ (sess[s].pinged /\ sess[s].ponged)
                => /\ sess'[s].status = sess[s].status
                   /\ (s \in connectedClients' <=> s \in connectedClients)]_vars

\* A sweep removed one connection, whose ping went unanswered, and spared
\* the other, which had answered its ping.
C26_Witness ==
    \E s, t \in Sessions :
        /\ sess[s].status = "closed" /\ sess[s].pinged /\ ~sess[s].ponged
        /\ ~sess[s].isAlive /\ s \notin connectedClients
        /\ sess[t].status = "open" /\ sess[t].spared /\ t \in connectedClients

(***************************************************************************)
(* SpecToggle: streaming mode turned off and on.  Two sessions that draw   *)
(* in streaming mode, at most MaxPending snapshots in all, and toggle      *)
(* streaming mode at any time.                                             *)
(***************************************************************************)
MaxPending == 3

ToggleResponses == {Unparsable, Array(<<Draw>>)}

NextToggle ==
    \/ \E s \in Sessions : Connect(s)
    \/ \E s \in Sessions : nextSnap <= MaxPending /\ CanvasUpdate(s)
    \/ \E s \in Sessions, p \in Prompts : AiPrompt(s, p, TRUE, tasks)
    \/ \E s \in Sessions, en \in BOOLEAN : ToggleStreamingMode(s, en, 0, 0)
    \/ \E k \in Planning, r \in ToggleResponses : PlannerReturn(k, 50, r)
    \/ \E k \in Executing : ExecStep(k)
    \/ TimerFire

SpecToggle == Init /\ [][NextToggle]_vars

\* The entries of the queue that were pending when streaming mode was
\* turned off for their session during one of its rounds.
ToggledOff ==
    {n \in 1..Len(canvasUpdateQueue) : canvasUpdateQueue[n].toggledOff}

\* No step starts a round of s.
NoRoundStarts(s) ==
    Cardinality(InFlight(tasks', s)) <= Cardinality(InFlight(tasks, s))

\* C27: when streaming mode is turned off for a session during one of its
\* rounds, the snapshot pending for the session is never passed to the
\* planner, and no round of the session starts while its streaming mode is
\* off.
C27_PendingDiscarded ==
    [][/\ \A n \in ToggledOff : canvasUpdateQueue[n].canvasData \notin planned'
       /\ \A s \in Sessions : ~sess[s].streamingMode => NoRoundStarts(s)]_vars

\* C27 as amended: for as long as the streaming mode of the session stays
\* off, the pending snapshot is not passed to the planner, and it is
\* dropped when it is taken from the queue by then; and no round of the
\* session starts while its streaming mode is off.
C27_PendingDiscardedWhileOff ==
    [][/\ \A n \in ToggledOff :
             ~sess[canvasUpdateQueue[n].ws].streamingMode
             => canvasUpdateQueue[n].canvasData \notin planned'
       /\ \A s \in Sessions : ~sess[s].streamingMode => NoRoundStarts(s)]_vars

\* Streaming mode is off for a session whose round is in flight, with a
\* snapshot pending that arrived during the round.
C27_Witness ==
    \E n \in ToggledOff :
        LET s == canvasUpdateQueue[n].ws
        IN  /\ ~sess[s].streamingMode
            /\ \E k \in InFlight(tasks, s) :
                  canvasUpdateQueue[n].canvasData \in tasks[k].seen

ControlEndpoints ==
    {"/api/tool", "/api/color", "/api/linewidth", "/api/clear", "/api/pause"}

\* How many commands of cmds have the endpoint, and how many messages of
\* msgs the type.
CommandCount(cmds, endpoint) ==
    Cardinality({n \in 1..Len(cmds) : cmds[n].endpoint = endpoint})
MessageCount(msgs, type) ==
    Cardinality({n \in 1..Len(msgs) : msgs[n].type = type})

\* C28: the control commands of a batch reach everyone.  Each Tool, Color,
\* Width, Clear and Pause command of a batch given to executeCommands,
\* the Clear command without parameters included, is broadcast to all open
\* sessions as CHANGE_TOOL, CHANGE_COLOR, CHANGE_LINE_WIDTH, CLEAR_CANVAS and
\* PAUSE: every such message goes to every open session, and a batch that
\* has run to its end has sent one such message for each such command.
C28_ControlReachesEveryone ==
    [][ExecutorStep
       => LET t == tasks'[1]
          IN  /\ \A n \in 1..Len(t.out) :
                    (\E e \in ControlEndpoints : t.out[n].type = MessageType(e))
                    => t.out[n].to = OpenSessions
              /\ (t.pc = "done" /\ ~t.threw)
                 => \A e \in ControlEndpoints :
                       MessageCount(t.sent, MessageType(e))
                           = CommandCount(t.cmds, e)]_vars

(***************************************************************************)
(* SpecStuck: prompts in batch mode, with the client's side of them.  A    *)
(* client sends a prompt only while its AI input controls are enabled, and *)
(* answers TRIGGER_CONTINUE with CONTINUE_DRAWING; the continuation that   *)
(* the other clients send on the same message is left out.  The planner    *)
(* answers a prompt with any of StuckResponses and finds the drawing       *)
(* complete at the first continuation.  Every planner call returns, every  *)
(* suspended batch resumes and every client answers.                       *)
(***************************************************************************)
StuckBatches ==
    {<<>>, <<Draw>>, <<Draw, Continue(20, 1), Pause(DEFAULT_PAUSE)>>,
     <<Draw, Continue(100, 3), Pause(DEFAULT_PAUSE)>>}
StuckResponses == {Throws, Unparsable} \cup {Array(c) : c \in StuckBatches}

\* The client of s received TRIGGER_CONTINUE from the batch of its prompt.
Triggered(s) ==
    /\ AllDone
    /\ \E k \in 1..Len(tasks) :
          /\ tasks[k].ws = s
          /\ HasType(tasks[k].sent, "TRIGGER_CONTINUE")

PromptStep ==
    \E s \in Sessions, p \in Prompts :
        AllDone /\ ~sess[s].aiPromptDisabled /\ AiPrompt(s, p, FALSE, <<>>)
ClientStep == \E s \in Sessions : Triggered(s) /\ ContinueDrawing(s, <<>>)
PlannerStep ==
    \E k \in Planning, r \in StuckResponses : PlannerReturn(k, STOP_THRESHOLD, r)
BatchStep == \E k \in Executing : ExecStep(k)

NextStuck ==
    \/ \E s \in Sessions : Connect(s)
    \/ PromptStep
    \/ ClientStep
    \/ PlannerStep
    \/ BatchStep

SpecStuck ==
    /\ Init /\ [][NextStuck]_vars
    /\ WF_vars(ClientStep) /\ WF_vars(PlannerStep) /\ WF_vars(BatchStep)

\* C29: the user is never stuck.  A client whose AI input controls were
\* disabled by a prompt eventually receives a terminal message and has its
\* controls enabled again, also when the planner fails or returns an empty
\* batch and when the drawing is complete in the first batch.
C29_NeverStuck ==
    \A s \in Sessions : sess[s].aiPromptDisabled ~> ~sess[s].aiPromptDisabled

(***************************************************************************)
(* SpecSnapshot: the shared snapshot.  Two sessions that connect at any    *)
(* time and send at most MaxPending snapshots in all, in streaming mode or *)
(* not, while the clear endpoint is called at any time.                    *)
(***************************************************************************)
\* app.post('/api/clear'): CLEAR_CANVAS to every open client, then the
\* snapshot is forgotten; a send that raises ends the request before that.
ApiClear(ts) ==
    /\ tasks' = Append(ts, Log([NewTask("http", "", canvasState) EXCEPT !.pc = "done"],
                               <<Msg("CLEAR_CANVAS", Recipients, 0, 0)>>))
    /\ canvasState' = IF Raising = {} THEN 0 ELSE canvasState
    /\ UNCHANGED <<sess, canvasUpdateQueue, timers, nextSnap, planned,
                   terminalReported, streamingBatchSize, consecutiveErrors,
                   connectedClients>>
    /\ conversationHistory' = IF Raising = {} THEN clearConversation
                                              ELSE conversationHistory

NextSnapshot ==
    \/ \E s \in Sessions : Connect(s)
    \/ \E s \in Sessions : nextSnap <= MaxPending /\ CanvasUpdate(s)
    \/ \E s \in Sessions, p \in Prompts : AiPrompt(s, p, TRUE, tasks)
    \/ canvasState # 0 /\ ApiClear(tasks)
    \/ \E k \in Planning, r \in ToggleResponses : PlannerReturn(k, 50, r)
    \/ \E k \in Executing : ExecStep(k)
    \/ TimerFire

SpecSnapshot == Init /\ [][NextSnapshot]_vars

\* The step handles a CANVAS_UPDATE, whose canvasData is nextSnap.
UpdateHandled == nextSnap' # nextSnap

\* The step is a call of the clear endpoint.
ClearCalled ==
    /\ tasks' # tasks
    /\ tasks' # <<>>
    /\ tasks'[Len(tasks')].kind = "http"
    /\ HasType(tasks'[Len(tasks')].sent, "CLEAR_CANVAS")

\* The step is the connection of s.
Connects(s) == sess[s].status = "new" /\ sess'[s].status = "open"

\* The snapshot that the step sends to the connecting client s (0: none).
SentOnConnect(s) ==
    IF /\ tasks' # tasks
       /\ tasks'[Len(tasks')].kind = "connection"
       /\ tasks'[Len(tasks')].ws = s
       /\ \E n \in 1..Len(tasks'[Len(tasks')].out) :
             /\ tasks'[Len(tasks')].out[n].type = "CANVAS_UPDATE"
             /\ tasks'[Len(tasks')].out[n].to = {s}
    THEN tasks'[Len(tasks')].snap
    ELSE 0

\* C30: single shared snapshot, last writer wins.  canvasState is the
\* canvasData of the update handled last, whichever session sent it, and
\* null when there was none since the start or since the clear endpoint:
\* an update sets it, the clear endpoint resets it and nothing else changes
\* it.  A client that connects is sent that value, and nothing when it is
\* null.
C30_LastWriterWins ==
    [][/\ IF UpdateHandled THEN canvasState' = nextSnap
          ELSE IF ClearCalled THEN canvasState' = 0
          ELSE canvasState' = canvasState
       /\ \A s \in Sessions : Connects(s) => SentOnConnect(s) = canvasState]_vars

\* The second session connected after the first had sent several snapshots
\* and was sent the last of them.
C30_Witness ==
    \E k \in 1..Len(tasks) :
        /\ tasks[k].kind = "connection"
        /\ tasks[k].snap = canvasState
        /\ canvasState >= 2
        /\ nextSnap = canvasState + 1

(***************************************************************************)
(* The pending updates (checked under SpecToggle)                          *)
(***************************************************************************)
\* The places of the entries of session s in queue q, and their snapshots.
EntriesOf(q, s) == {n \in 1..Len(q) : q[n].ws = s}
PendingData(q, s) == {q[n].canvasData : n \in EntriesOf(q, s)}

\* The step handles a CANVAS_UPDATE of s that the handler puts in the queue.
Received(s) ==
    /\ CanvasUpdate(s)
    /\ sess[s].streamingMode
    /\ sess[s].originalPrompt # ""

\* The handler of a CANVAS_UPDATE of s calls processNextCanvasUpdate, and
\* the entry of s is the first of the Map.
DequeuesOwn(s) ==
    /\ ~sess[s].isProcessingCommand
    /\ \/ canvasUpdateQueue = <<>>
       \/ canvasUpdateQueue[1].ws = s

\* C31: pending-update invariant.  canvasUpdateQueue holds at most one entry
\* per session at all times; a snapshot received from a session that is
\* streaming with a prompt replaces what the session's entry held, so that
\* the entry holds that snapshot alone until it is dequeued, and no other
\* step puts anything in the session's entry.
C31_PendingUpdate ==
    /\ [](\A s \in Sessions : Cardinality(EntriesOf(canvasUpdateQueue, s)) <= 1)
    /\ [][\A s \in Sessions :
             IF Received(s)
             THEN PendingData(canvasUpdateQueue', s)
                      = IF DequeuesOwn(s) THEN {} ELSE {nextSnap}
             ELSE PendingData(canvasUpdateQueue', s)
                      \subseteq PendingData(canvasUpdateQueue, s)]_vars

\* During a round of a session, the session sent two snapshots, and its
\* entry holds the later one.
C31_Witness ==
    \E n \in 1..Len(canvasUpdateQueue) :
        \E k \in InFlight(tasks, canvasUpdateQueue[n].ws) :
            /\ Cardinality(tasks[k].seen) >= 2
            /\ canvasUpdateQueue[n].canvasData \in tasks[k].seen
            /\ \A d \in tasks[k].seen : d <= canvasUpdateQueue[n].canvasData

(***************************************************************************)
(* The busy flag (checked under Spec)                                      *)
(***************************************************************************)
\* C32: busy-flag invariant.  The isProcessingCommand of a session is true
\* exactly while a planning round of the session is in flight: it is false
\* when no round of the session runs, after a round that raised as well,
\* and it is never false while a round of the session is still running.
C32_BusyFlag ==
    \A s \in Sessions :
        sess[s].isProcessingCommand <=> InFlight(tasks, s) # {}

(***************************************************************************)
(* SpecTrigger: continuations in batch mode, with the clients' side of     *)
(* them.  Two sessions; a prompt is submitted when nothing is in flight    *)
(* and no TRIGGER_CONTINUE is unanswered, each batch is a draw command or  *)
(* ends with a continue command and a pause, and every client that is sent *)
(* TRIGGER_CONTINUE may answer it with CONTINUE_DRAWING, before the next   *)
(* segment of an invocation runs.  At most MaxContinuations continuation   *)
(* rounds are in flight together.                                          *)
(***************************************************************************)
MaxContinuations == 2

TriggerBatches == {<<Draw>>, <<Draw, Continue(20, 1), Pause(DEFAULT_PAUSE)>>}
TriggerResponses == {Array(c) : c \in TriggerBatches}

\* The continuation rounds in flight.
Continuations ==
    {k \in 1..Len(tasks) : tasks[k].kind = "continue" /\ tasks[k].pc # "done"}

\* The TRIGGER_CONTINUE messages that session s has still to answer: the
\* invocation that sent one and its place among the messages of the segment.
TriggersFor(s) ==
    {p \in UNION {{k} \X (1..Len(tasks[k].out)) : k \in 1..Len(tasks)} :
        /\ tasks[p[1]].out[p[2]].type = "TRIGGER_CONTINUE"
        /\ s \in tasks[p[1]].out[p[2]].to}

\* The client of s handles a TRIGGER_CONTINUE: it sends CONTINUE_DRAWING,
\* which the server handles.
TriggerContinue(s) ==
    \E p \in TriggersFor(s) :
        /\ Cardinality(Continuations) < MaxContinuations
        /\ ContinueDrawing(s, [tasks EXCEPT ![p[1]].out[p[2]].to = @ \ {s}])

NextTrigger ==
    \/ \E s \in Sessions : Connect(s)
    \/ \E s \in Sessions, p \in Prompts :
          /\ AllDone
          /\ \A c \in Sessions : TriggersFor(c) = {}
          /\ AiPrompt(s, p, FALSE, <<>>)
    \/ \E s \in Sessions : TriggerContinue(s)
    \/ \E k \in Planning, a \in {50, STOP_THRESHOLD}, r \in TriggerResponses :
          PlannerReturn(k, a, r)
    \/ \E k \in Executing : ExecStep(k)

SpecTrigger == Init /\ [][NextTrigger]_vars

\* C33: one trigger, one continuation.  A TRIGGER_CONTINUE that
\* executeCommands emits leads to at most one continuation round, however
\* many clients are connected: with one prompt at a time and the trigger at
\* the end of its batch, no two continuation rounds are in flight together.
C33_OneTriggerOneContinuation == Cardinality(Continuations) <= 1

(***************************************************************************)
(* SpecRound: the messages that frame a planning round.  One session that  *)
(* draws in streaming mode and sends a snapshot when no round is in        *)
(* flight; the planner answers with any analysis of Analyses and any       *)
(* response of RoundResponses, among them a draw command that has no       *)
(* parameters.  Every planner call returns and every suspended batch       *)
(* resumes.                                                                *)
(***************************************************************************)
RoundResponses ==
    {Throws, Unparsable, Array(<<Draw>>), Array(<<DrawNoParams>>)}

RoundPlannerStep ==
    \E k \in Planning, a \in Analyses, r \in RoundResponses : PlannerReturn(k, a, r)

NextRound ==
    \/ \E s \in ExecSessions : Connect(s)
    \/ \E s \in ExecSessions, p \in Prompts : AllDone /\ AiPrompt(s, p, TRUE, <<>>)
    \/ \E s \in ExecSessions : AllDone /\ CanvasUpdate(s)
    \/ RoundPlannerStep
    \/ BatchStep

SpecRound ==
    /\ Init /\ [][NextRound]_vars
    /\ WF_vars(RoundPlannerStep) /\ WF_vars(BatchStep)

\* The round that plans on snapshot d has sent STREAMING_COMMAND_START and
\* is in flight.
RoundStarted(d) ==
    \E k \in 1..Len(tasks) :
        /\ tasks[k].kind = "round"
        /\ tasks[k].snap = d
        /\ tasks[k].pc # "done"
        /\ HasType(tasks[k].sent, "STREAMING_COMMAND_START")

\* The round that planned on snapshot d has ended and has sent
\* STREAMING_COMMAND_COMPLETE or STREAMING_COMPLETE.
RoundReported(d) ==
    \E k \in 1..Len(tasks) :
        /\ tasks[k].kind = "round"
        /\ tasks[k].snap = d
        /\ tasks[k].pc = "done"
        /\ \/ HasType(tasks[k].sent, "STREAMING_COMMAND_COMPLETE")
           \/ HasType(tasks[k].sent, "STREAMING_COMPLETE")

\* C34: every STREAMING_COMMAND_START sent to a session is eventually
\* followed by a STREAMING_COMMAND_COMPLETE or a STREAMING_COMPLETE of the
\* same round to that session, also when the batch of the round raises.
C34_StartThenComplete ==
    \A d \in 1..MaxSnaps : RoundStarted(d) ~> RoundReported(d)

(***************************************************************************)
(* SpecDrain: the drain of the queue.  Two sessions that draw in streaming *)
(* mode, at most MaxDrain snapshots in all, and toggle streaming mode at   *)
(* any time; the planner's output never parses, so that a round is one     *)
(* planner call and one batch of one command.  Every drain timer fires,    *)
(* every planner call returns and every suspended batch resumes; no        *)
(* inbound message has to arrive.                                          *)
(***************************************************************************)
MaxDrain == 4

DrainPlannerStep == \E k \in Planning : PlannerReturn(k, 50, Unparsable)

NextDrain ==
    \/ \E s \in Sessions : JoinsNext(s) /\ Connect(s)
    \/ \E s \in Sessions, p \in Prompts :
          sess[s].originalPrompt = "" /\ AiPrompt(s, p, TRUE, tasks)
    \/ \E s \in Sessions : nextSnap <= MaxDrain /\ CanvasUpdate(s)
    \/ \E s \in Sessions :
          sess[s].originalPrompt # ""
          /\ ToggleStreamingMode(s, ~sess[s].streamingMode, 0, 0)
    \/ DrainPlannerStep
    \/ BatchStep
    \/ TimerFire

SpecDrain ==
    /\ Init /\ [][NextDrain]_vars
    /\ WF_vars(TimerFire) /\ WF_vars(DrainPlannerStep) /\ WF_vars(BatchStep)

\* A snapshot is pending for session s, which is open, streaming and has a
\* prompt; Waiting: and s is not processing.
Pending(s) ==
    /\ EntriesOf(canvasUpdateQueue, s) # {}
    /\ Eligible(sess, s)
Waiting(s) == Pending(s) /\ ~sess[s].isProcessingCommand

\* C35: no stranded snapshot.  A snapshot that is pending for a session
\* that is open, streaming, has a prompt and is not processing is
\* eventually taken from the queue (unless its session ceases to qualify),
\* without a further inbound message, also when the entry ahead of it
\* belongs to a session that has left streaming mode.
C35_NoStrandedSnapshot ==
    \A s \in Sessions : Waiting(s) ~> ~Pending(s)

(***************************************************************************)
(* SpecCounter: the consecutive-error counter.  SpecErrors with the record *)
(* of the message handled before kept next to that of the message handled  *)
(* last.                                                                   *)
(***************************************************************************)
\* The record of the message handled last.
LastOf(ts) == IF ts = <<>> THEN <<>> ELSE <<ts[Len(ts)]>>

JsonStep(s) == InvalidJson(s, LastOf(tasks))
RelayStep(s) == DrawAction(s, ValidAction, LastOf(tasks))
ToggleStep(s) == \E en \in BOOLEAN : ToggleStreamingMode(s, en, 0, 0)

NextCounter ==
    \/ \E s \in Sessions : Connect(s)
    \/ \E s \in Sessions : Break(s)
    \/ \E s \in Sessions : JsonStep(s)
    \/ \E s \in Sessions : RelayStep(s)
    \/ \E s \in Sessions : ToggleStep(s)

SpecCounter == Init /\ [][NextCounter]_vars

\* The step changes the status of no session but s.
OnlyStatusOf(s) ==
    \A t \in Sessions \ {s} : sess'[t].status = sess[t].status

CanvasUpdateMessage(s) ==
    LET data == nextSnap
        queued == sess[s].streamingMode /\ sess[s].originalPrompt # ""
        q1 == IF queued THEN QueueSet(canvasUpdateQueue, s, data)
                        ELSE canvasUpdateQueue
        calls == queued /\ ~sess[s].isProcessingCommand
        ts == [k \in 1..Len(tasks) |->
                  IF k \in InFlight(tasks, s)
                  THEN [tasks[k] EXCEPT !.seen = @ \cup {data}] ELSE tasks[k]]
        r == IF calls THEN ProcessNext(sess, q1, ts)
                      ELSE [sess |-> sess, queue |-> q1, tasks |-> ts]
        relayed == Msg("CANVAS_UPDATE", Recipients \ {s}, 0, 0)
        t == [NewTask("relay", s, data) EXCEPT !.pc = "done"]
    IN  /\ sess[s].status = "open"
        /\ nextSnap <= MaxSnaps
        /\ canvasState' = data
        /\ nextSnap' = nextSnap + 1
        /\ canvasUpdateQueue' = r.queue
        /\ planned' = IF calls /\ StartsRound(sess, q1)
                      THEN planned \cup {q1[1].canvasData} ELSE planned
        /\ IF Raising = {}
           THEN /\ tasks' = Append(r.tasks, Log(t, <<relayed>>))
                /\ sess' = r.sess
                /\ consecutiveErrors' = 0 /\ UNCHANGED connectedClients
           ELSE /\ tasks' = Append(r.tasks,
                                   Log([t EXCEPT !.threw = TRUE],
                                       <<relayed>> \o CatchMessages(0, s)))
                /\ MessageCatch(0, r.sess, s)
        /\ conversationHistory' = AfterCatch(Raising # {}, 0, conversationHistory)
        /\ UNCHANGED <<timers, terminalReported, streamingBatchSize>>

NextRelay ==
    \/ \E s \in Sessions : JoinsNext(s) /\ Connect(s)
    \/ \E s \in Sessions : Close(s)
    \/ \E s \in Sessions, p \in Prompts :
          sess[s].originalPrompt = "" /\ AiPrompt(s, p, TRUE, tasks)
    \/ \E s \in Sessions : ToggleStreamingMode(s, ~sess[s].streamingMode, 0, 0)
    \/ \E s \in Sessions : nextSnap <= MaxPending /\ CanvasUpdateMessage(s)
    \/ DrainPlannerStep
    \/ BatchStep
    \/ TimerFire

SpecRelay == Init /\ [][NextRelay]_vars

\* The snapshots in the queue.
AllPending == {canvasUpdateQueue[n].canvasData : n \in 1..Len(canvasUpdateQueue)}

\* The step handles a CANVAS_UPDATE of s, which is not streaming or has no
\* prompt.
ReceivedIdle(s) ==
    /\ CanvasUpdateMessage(s)
    /\ ~(sess[s].streamingMode /\ sess[s].originalPrompt # "")

\* The step relays the snapshot of s to the other open sessions, and that
\* is the last thing it does.
Forwarded(s) ==
    LET t == tasks'[Len(tasks')]
    IN  /\ t.kind = "relay"
        /\ t.ws = s
        /\ t.snap = nextSnap
        /\ t.out = <<Msg("CANVAS_UPDATE", OpenSessions \ {s}, 0, 0)>>

\* C37: a planning round is started only for a session that is open,
\* streaming and has a prompt when its snapshot is dequeued, and on a
\* snapshot that was in the queue or is queued by the step.  A snapshot of
\* a session that is not streaming or has no prompt is not queued and is
\* never planned: it becomes canvasState and is forwarded to the other
\* sessions, and nothing else changes.
C37_RoundsOnlyWhenStreaming ==
    [][/\ \A s \in Sessions :
             ~NoRoundStarts(s)
             => /\ sess[s].status = "open"
                /\ sess[s].streamingMode
                /\ sess[s].originalPrompt # ""
       /\ \A d \in planned' \ planned :
             \/ d \in AllPending
             \/ d = nextSnap /\ nextSnap' # nextSnap
                /\ \A s \in Sessions : ~ReceivedIdle(s)
       /\ \A s \in Sessions :
             ReceivedIdle(s)
             => /\ canvasUpdateQueue' = canvasUpdateQueue
                /\ planned' = planned
                /\ \A t \in Sessions : NoRoundStarts(t)
                /\ canvasState' = nextSnap
                /\ Forwarded(s)
                /\ UNCHANGED <<sess, timers, terminalReported,
                               streamingBatchSize, connectedClients,
                   conversationHistory>>]_vars

\* A session that has a prompt and has left streaming mode sent a snapshot
\* during a round of the other session: it was forwarded to that session,
\* is the current canvas state, and is neither pending nor planned.
C37_Witness ==
    /\ tasks # <<>>
    /\ LET t == tasks[Len(tasks)]
       IN  /\ t.kind = "relay"
           /\ sess[t.ws].originalPrompt # ""
           /\ ~sess[t.ws].streamingMode
           /\ t.out[1].to # {}
           /\ \A s \in t.out[1].to : InFlight(tasks, s) # {}
           /\ canvasState = t.snap
           /\ t.snap \notin planned \cup AllPending

(***************************************************************************)
(* SpecArm: the continuation trigger.  One session submitting prompts in   *)
(* batch mode and asking for continuations, one batch at a time, over      *)
(* every batch of at most MaxBatchLen commands of ArmAlphabet.             *)
(***************************************************************************)
ArmAlphabet ==
    {Draw, Pause(DEFAULT_PAUSE), Continue(20, 1), Continue(100, 3),
     AdvancePhase(1, 30), AdvancePhase(3, 100)}
ArmBatches == UNION {[1..n -> ArmAlphabet] : n \in 0..MaxBatchLen}
ArmResponses == {Array(c) : c \in ArmBatches}

NextArm ==
    \/ \E s \in ExecSessions : Connect(s)
    \/ \E s \in ExecSessions, p \in Prompts : AllDone /\ AiPrompt(s, p, FALSE, <<>>)
    \/ \E s \in ExecSessions : AllDone /\ ContinueDrawing(s, <<>>)
    \/ \E k \in Planning, r \in ArmResponses : PlannerReturn(k, 50, r)
    \/ BatchStep

SpecArm == Init /\ [][NextArm]_vars

\* Command n of cmds is executed and is a Continue or an AdvancePhase; a
\* Pause.
Arms(cmds, n) == cmds[n].params /\ (IsContinue(cmds[n]) \/ IsAdvancePhase(cmds[n]))
Pauses(cmds, n) == cmds[n].params /\ IsPause(cmds[n])

\* The places in msgs of the messages of the type.
PlacesOf(msgs, type) == {p \in 1..Len(msgs) : msgs[p].type = type}

\* The place in msgs of the COMPLETION_UPDATE of command n of cmds, a
\* Continue (0 when it has not been sent).
UpdateOf(msgs, cmds, n) ==
    LET rank == Cardinality({m \in 1..n : cmds[m].params /\ IsContinue(cmds[m])})
        places == {p \in PlacesOf(msgs, "COMPLETION_UPDATE") :
                      Cardinality({q \in PlacesOf(msgs, "COMPLETION_UPDATE") :
                                      q <= p}) = rank}
    IN  IF places = {} THEN 0 ELSE CHOOSE p \in places : TRUE

\* executeCommands sends no DRAWING_COMPLETE, and after the
\* COMPLETION_UPDATE of a Continue below 95% that no Pause follows in the
\* batch it sends no TRIGGER_CONTINUE.
NoTriggerWithoutPause ==
    \A k \in 1..Len(tasks) :
        LET t == tasks[k]
        IN  /\ t.cmds # <<>> => PlacesOf(t.sent, "DRAWING_COMPLETE") = {}
            /\ \A n \in 1..Len(t.cmds) :
                  (/\ t.cmds[n].params /\ IsContinue(t.cmds[n])
                   /\ t.cmds[n].completionPercentage < STOP_THRESHOLD
                   /\ \A m \in (n + 1)..Len(t.cmds) : ~Pauses(t.cmds, m)
                   /\ UpdateOf(t.sent, t.cmds, n) # 0)
                  => \A p \in PlacesOf(t.sent, "TRIGGER_CONTINUE") :
                        p < UpdateOf(t.sent, t.cmds, n)

\* A segment that sends TRIGGER_CONTINUE resumes from the wait of a Pause
\* and sends it once, first of all; an executed Continue or AdvancePhase
\* precedes the Pause with no other Pause between them.
TriggerAtPause ==
    (ExecutorStep /\ HasType(tasks'[1].out, "TRIGGER_CONTINUE"))
    => /\ tasks[1].at = "pausewait"
       /\ Pauses(Batch, tasks[1].i)
       /\ PlacesOf(tasks'[1].out, "TRIGGER_CONTINUE") = {1}
       /\ \E n \in 1..(tasks[1].i - 1) :
             /\ Arms(Batch, n)
             /\ \A m \in (n + 1)..(tasks[1].i - 1) : ~Pauses(Batch, m)

\* C38: TRIGGER_CONTINUE is emitted only while a Pause is being processed,
\* and at most once per Continue or AdvancePhase of the batch: each one is
\* emitted at the first Pause after such a command.  A Continue below 95%
\* that no Pause follows in the batch produces no TRIGGER_CONTINUE, and the
\* executor sends no DRAWING_COMPLETE.
C38_TriggerOnlyAtPause ==
    /\ []NoTriggerWithoutPause
    /\ [][TriggerAtPause]_vars

\* A batch with one Continue and two Pauses has run to its end and has sent
\* TRIGGER_CONTINUE once, after the first Pause.
C38_Witness ==
    /\ tasks # <<>>
    /\ tasks[1].pc = "done"
    /\ tasks[1].cmds = <<Continue(20, 1), Pause(DEFAULT_PAUSE),
                         Pause(DEFAULT_PAUSE)>>
    /\ PlacesOf(tasks[1].sent, "TRIGGER_CONTINUE") = {3}
    /\ tasks[1].sent[4].type = "PAUSE"

(***************************************************************************)
(* SpecHistory: the conversation of the planner.  Two clients send batch   *)
(* prompts, whose calls may overlap; a processUserPrompt call throws, or   *)
(* returns a text that does not parse, or one that parses to a batch; the  *)
(* clear endpoint is called, and messages that are not JSON drive the      *)
(* catch to MAX_CONSECUTIVE_ERRORS.  The texts parse to batches that are   *)
(* not empty, so that the record of a call tells how it ended.             *)
(***************************************************************************)
HistoryPrompts == {"a tree", "a house"}

HistoryTexts == {"[tool]", "sorry"}

\* What a text parses to
Parsed(text) == IF text = "[tool]" THEN Array(<<Tool>>) ELSE Unparsable

\* The processUserPrompt calls of session s that are not over
CallsOf(s) ==
    {k \in 1..Len(tasks) :
        tasks[k].kind = "prompt" /\ tasks[k].ws = s /\ tasks[k].pc # "done"}

\* A processUserPrompt call returns
HistoryPlannerStep(k) ==
    \/ processUserPromptReturn(k, Throws, "")
    \/ \E text \in HistoryTexts : processUserPromptReturn(k, Parsed(text), text)

NextHistory ==
    \/ \E s \in Sessions : JoinsNext(s) /\ Connect(s)
    \/ \E s \in Sessions, p \in HistoryPrompts :
          CallsOf(s) = {} /\ AiPrompt(s, p, FALSE, Live(tasks))
    \/ \E s \in Sessions : InvalidJson(s, Live(tasks))
    \/ conversationHistory # <<>> /\ ApiClear(Live(tasks))
    \/ \E k \in Planning : HistoryPlannerStep(k)
    \/ \E k \in Executing : ExecStep(k)

SpecHistory == Init /\ [][NextHistory]_vars

\* The step is the return of call k with text.
Returns(k, text) ==
    tasks[k].kind = "prompt" /\ PlannerReturns(k, NoAnalysis, Parsed(text))

\* The step is the return of call k that threw.
Fails(k) == tasks[k].kind = "prompt" /\ PlannerReturns(k, NoAnalysis, Throws)

\* The step calls clearConversation(): the clear endpoint, or the catch at
\* MAX_CONSECUTIVE_ERRORS.
Clears ==
    \/ ClearCalled
    \/ \E s \in Sessions : sess[s].status = "open" /\ sess'[s].status = "closed"

\* h, then the prompt and the text, and of these the last 10
LastTen(h, prompt, text) ==
    LET l == h \o <<prompt, text>>
    IN  [n \in 1..(IF Len(l) > 10 THEN 10 ELSE Len(l)) |->
            l[n + (IF Len(l) > 10 THEN Len(l) - 10 ELSE 0)]]

\* C39: conversationHistory always has an even length of at most 10; the
\* return of a processUserPrompt call that threw or whose text does not
\* parse leaves it unchanged, the return of a call whose text parsed
\* appends the prompt and the text and keeps the last 10 entries, a call of
\* clearConversation (by the clear endpoint or by the catch) empties it,
\* and no other step changes it.
C39_ConversationHistory ==
    /\ [](Len(conversationHistory) % 2 = 0 /\ Len(conversationHistory) <= 10)
    /\ [][/\ \A k \in Planning :
                /\ Fails(k) => conversationHistory' = conversationHistory
                /\ \A text \in HistoryTexts :
                      Returns(k, text) =>
                          conversationHistory' =
                              IF Parsed(text).kind = "array"
                              THEN LastTen(conversationHistory,
                                           tasks[k].prompt, text)
                              ELSE conversationHistory
          /\ Clears => conversationHistory' = <<>>
          /\ conversationHistory' # conversationHistory =>
                \/ Clears
                \/ \E k \in Planning : Returns(k, "[tool]")]_vars

\* Five calls have parsed and a sixth, with another prompt, has just
\* returned: its prompt and text are the last of the 10 entries, and the
\* prompt of the first call is gone.
C39_Witness ==
    /\ Len(conversationHistory) = 10
    /\ \A n \in 1..4 : conversationHistory[2 * n - 1] = "a tree"
    /\ conversationHistory[9] = "a house"
    /\ conversationHistory[10] = "[tool]"
    /\ \E k \in 1..Len(tasks) :
          /\ tasks[k].kind = "prompt" /\ tasks[k].prompt = "a house"
          /\ tasks[k].cmds = <<Tool>> /\ tasks[k].pc = "exec"
====
